---- MODULE Spec2Model ----
(***************************************************************************)
(* Cycle-level model of the Intel 808x CPU core (src/src/cpu_808x/mod.rs). *)
(*                                                                         *)
(* The whole Cpu object is one record, `cpu`, whose fields carry the names *)
(* of the Rust struct's fields.  Every method that the source gives is an  *)
(* operator from a Cpu record to a Cpu record, composed exactly as the     *)
(* method composes its calls.                                              *)
(*                                                                         *)
(* Two specifications step the same operators:                             *)
(*   SpecBus  one cycle() call (or one EU request to the BIU) per step;    *)
(*   Spec     one whole step() / reset() call per step.                    *)
(***************************************************************************)
EXTENDS Integers, Sequences, FiniteSets, TLC

VARIABLES cpu, eu, ret

vars == <<cpu, eu, ret>>

(***************************************************************************)
(* Program constants.                                                      *)
(***************************************************************************)
FETCH_DELAY == 2
INTERRUPT_VEC_LEN == 4
CPU_HISTORY_LEN == 32
CPU_FLAG_TRAP == 256
CPU_FLAG_INT_ENABLE == 512
CPU_FLAGS_RESERVED_ON == 61442
FINALIZE_TIMEOUT == 16
DRAM_TRANSFER_CYCLES == 4

W8  == 2^8
W16 == 2^16
W20 == 2^20

(***************************************************************************)
(* Bounds of the model.                                                    *)
(***************************************************************************)
\* largest wait-state count the bus target answers with
MaxWait == 1
\* cycle() calls explored after reset, cycle-level specification
MaxBusCycles == 26
\* cycle() calls explored after reset, step-level specification
MaxCycleNum == 30
\* step() calls explored after reset, step-level specification
MaxSteps == 4
\* cycles a wait loop of the EU may spin before the run counts as hung
MaxSpin == 24

Min(a, b) == IF a < b THEN a ELSE b

(***************************************************************************)
(* Bits of a 16-bit word; m is a one-bit mask.                             *)
(***************************************************************************)
\* v under the name F gives it: each value is written, and computed, once
Let(v, F(_)) == F(v)

\* One statement after another: F goes on from the state s, unless s has
\* panicked, and then s is where the routine ended.
Then(s, F(_)) == IF s.panic # "" THEN s ELSE F(s)

HasBit(x, m) == (x \div m) % 2 = 1
SetBit(x, m) == IF HasBit(x, m) THEN x ELSE x + m
ClearBit(x, m) == IF HasBit(x, m) THEN x - m ELSE x

calc_linear_address(segment, offset) == (segment * 16 + offset) % W20

(***************************************************************************)
(* The bus target: memory is what was written over a fixed default image.  *)
(***************************************************************************)
DefaultByte(a) == (a % W20) % W8

read_u8(bus, a) == IF a \in DOMAIN bus.mem THEN bus.mem[a] ELSE DefaultByte(a)

read_u16(bus, a) == read_u8(bus, a) + W8 * read_u8(bus, a + 1)

write_u8(bus, a, b) ==
    [bus EXCEPT !.mem = [x \in (DOMAIN bus.mem) \cup {a} |->
                            IF x = a THEN b ELSE bus.mem[x]]]

write_u16(bus, a, w) == write_u8(write_u8(bus, a, w % W8), a + 1, w \div W8)

(***************************************************************************)
(* Flags.                                                                  *)
(***************************************************************************)
get_flag(s, m) == HasBit(s.flags, m)

\* set_flag leaving the interrupt-inhibit latch alone
set_flag_without_latch(s, m) == [s EXCEPT !.flags = SetBit(@, m)]

set_flag(s, m) ==
    [s EXCEPT !.interrupt_inhibit = IF m = CPU_FLAG_INT_ENABLE THEN TRUE ELSE @,
              !.flags = SetBit(@, m)]

clear_flag(s, m) == [s EXCEPT !.flags = ClearBit(@, m)]

interrupts_enabled(s) == get_flag(s, CPU_FLAG_INT_ENABLE) /\ ~s.interrupt_inhibit

(***************************************************************************)
(* Instruction queue.                                                      *)
(***************************************************************************)
FetchWidth(s) == IF s.fetch_size = "Byte" THEN 1 ELSE 2

queue_len(s) == Len(s.queue.q)

queue_push8(s, b) ==
    IF queue_len(s) + 1 <= s.queue.size
    THEN [s EXCEPT !.queue.q = Append(@, b)]
    ELSE [s EXCEPT !.panic = "queue overrun"]

queue_push16(s, w) ==
    IF queue_len(s) + 2 <= s.queue.size
    THEN [s EXCEPT !.queue.q = Append(Append(@, w % W8), w \div W8)]
    ELSE [s EXCEPT !.panic = "queue overrun"]

queue_pop(s) ==
    IF queue_len(s) > 0
    THEN [s EXCEPT !.queue.q = Tail(@), !.queue.preload = FALSE]
    ELSE [s EXCEPT !.panic = "queue underrun"]

queue_flush(s) == [s EXCEPT !.queue.q = <<>>, !.queue.preload = FALSE]

queue_set_preload(s) ==
    IF queue_len(s) > 0
    THEN [s EXCEPT !.queue.preload = TRUE]
    ELSE [s EXCEPT !.panic = "preload of empty queue"]

(***************************************************************************)
(* Bus Interface Unit.                                                     *)
(***************************************************************************)
FsIdle == [k |-> "Idle", n |-> 0]
FsInProgress == [k |-> "InProgress", n |-> 0]
FsScheduled(n) == [k |-> "Scheduled", n |-> n]
FsAborted(n) == [k |-> "Aborted", n |-> n]

biu_queue_has_room(s) == queue_len(s) + FetchWidth(s) <= s.queue.size

biu_schedule_fetch(s) ==
    IF s.fetch_state.k = "Scheduled" THEN s
    ELSE [s EXCEPT !.fetch_state = FsScheduled(0)]

\* biu_abort_fetch leaving a scheduled fetch scheduled
biu_abort_fetch_ignored(s) == s

biu_abort_fetch(s) ==
    IF s.fetch_state.k = "Scheduled"
    THEN [s EXCEPT !.fetch_state = FsAborted(s.fetch_state.n)]
    ELSE s

biu_make_fetch_decision(s) ==
    IF biu_queue_has_room(s) /\ ~s.bus_pending_eu /\ ~s.fetch_suspended
    THEN biu_schedule_fetch(s)
    ELSE s

biu_tick_prefetcher(s) ==
    CASE s.fetch_state.k = "Scheduled" ->
            [s EXCEPT !.fetch_state.n = Min(@ + 1, FETCH_DELAY)]
      [] s.fetch_state.k = "Aborted" ->
            IF s.fetch_state.n + 1 >= FETCH_DELAY
            THEN [s EXCEPT !.fetch_state = FsIdle]
            ELSE [s EXCEPT !.fetch_state.n = @ + 1]
      [] OTHER -> s

biu_bus_end(s) ==
    [s EXCEPT !.i8288.mrdc = FALSE, !.i8288.amwc = FALSE, !.i8288.mwtc = FALSE,
              !.i8288.iorc = FALSE, !.i8288.aiowc = FALSE, !.i8288.iowc = FALSE,
              !.fetch_state = IF @.k = "InProgress" THEN FsIdle ELSE @]

\* biu_update_pc taking the offset for the address
biu_update_pc_offset_only(s) == [s EXCEPT !.pc = s.ip]

biu_update_pc(s) == [s EXCEPT !.pc = calc_linear_address(s.cs, s.ip)]

trigger_prefetch_on_queue_read(s) ==
    IF s.fetch_state.k = "Idle" /\ ~s.fetch_suspended /\ ~s.bus_pending_eu
    THEN biu_schedule_fetch(s)
    ELSE s

(***************************************************************************)
(* cycle_i, in the four parts of its body.                                 *)
(***************************************************************************)
is_last_wait(s) == s.t_cycle \in {"T3", "Tw"} /\ s.wait_states = 0

is_operand_complete(s) ==
    CASE s.operand_size = "Operand8" -> s.transfer_n = 1
      [] s.operand_size = "Operand16" -> s.transfer_n = 2
      [] OTHER -> TRUE

ActiveStatus == {"MemRead", "MemWrite", "IORead", "IOWrite", "CodeFetch"}

\* T3: the read or write itself; ws is the bus target's wait-state answer
cycle_t3(s, ws) ==
    LET st == s.bus_status
        sz == s.transfer_size
        a  == s.address_bus
        lo == s.data_bus % W8
    IN  CASE st \in {"CodeFetch", "MemRead"} /\ sz = "Byte" ->
                [s EXCEPT !.wait_states = ws + s.dram_transfer_cycles,
                          !.data_bus = read_u8(s.bus, a),
                          !.transfer_n = @ + 1]
          [] st \in {"CodeFetch", "MemRead"} /\ sz = "Word" ->
                [s EXCEPT !.wait_states = ws + s.dram_transfer_cycles,
                          !.data_bus = read_u16(s.bus, a),
                          !.transfer_n = @ + 1]
          [] st = "MemWrite" /\ sz = "Byte" ->
                [s EXCEPT !.i8288.mwtc = TRUE,
                          !.bus = write_u8(s.bus, a, lo),
                          !.wait_states = ws + s.dram_transfer_cycles,
                          !.transfer_n = @ + 1]
          [] st = "MemWrite" /\ sz = "Word" ->
                [s EXCEPT !.i8288.mwtc = TRUE,
                          !.bus = write_u16(s.bus, a, s.data_bus),
                          !.wait_states = ws + s.dram_transfer_cycles,
                          !.transfer_n = @ + 1]
          [] st = "IORead" /\ sz = "Byte" ->
                [s EXCEPT !.wait_states = s.dram_transfer_cycles,
                          !.data_bus = DefaultByte(a % W16),
                          !.transfer_n = @ + 1]
          [] st = "IOWrite" /\ sz = "Byte" ->
                [s EXCEPT !.wait_states = s.dram_transfer_cycles,
                          !.transfer_n = @ + 1]
          [] OTHER -> s

\* T2: ALE goes low, the read and the advanced write commands go high
cycle_t2(s) ==
    [s EXCEPT !.i8288.ale = FALSE,
              !.i8288.mrdc = IF s.bus_status \in {"CodeFetch", "MemRead"} THEN TRUE ELSE @,
              !.i8288.amwc = IF s.bus_status = "MemWrite" THEN TRUE ELSE @,
              !.i8288.iorc = IF s.bus_status = "IORead" THEN TRUE ELSE @,
              !.i8288.aiowc = IF s.bus_status = "IOWrite" THEN TRUE ELSE @]

\* cycle_t4 with the program counter left to run past the 20-bit range
cycle_t4_no_wrap(s) ==
    IF s.bus_status = "CodeFetch" /\ s.transfer_size = "Byte"
    THEN [queue_push8(s, s.data_bus % W8) EXCEPT !.pc = s.pc + 1]
    ELSE IF s.bus_status = "CodeFetch" /\ s.transfer_size = "Word"
    THEN [queue_push16(s, s.data_bus) EXCEPT !.pc = s.pc + 2]
    ELSE s

\* T4: a completed code fetch enters the queue and advances the program counter
cycle_t4(s) ==
    IF s.bus_status = "CodeFetch" /\ s.transfer_size = "Byte"
    THEN [queue_push8(s, s.data_bus % W8) EXCEPT !.pc = (s.pc + 1) % W20]
    ELSE IF s.bus_status = "CodeFetch" /\ s.transfer_size = "Word"
    THEN [queue_push16(s, s.data_bus) EXCEPT !.pc = (s.pc + 2) % W20]
    ELSE s

\* "Operate current t-state"
cycle_t_state(s0, ws) ==
    Let([s0 EXCEPT !.t_cycle = IF @ = "TInit" THEN "T1" ELSE @], LAMBDA s :
        IF s.bus_status = "Passive" THEN [s EXCEPT !.transfer_n = 0]
        ELSE IF s.bus_status \notin ActiveStatus THEN s
        ELSE IF s.t_cycle = "T2" THEN cycle_t2(s)
        ELSE IF s.t_cycle = "T3"
             THEN Let(cycle_t3(s, ws), LAMBDA r3 :
                      IF is_last_wait(r3) /\ is_operand_complete(r3)
                      THEN biu_make_fetch_decision(r3) ELSE r3)
        ELSE IF s.t_cycle = "Tw"
             THEN (IF is_last_wait(s) /\ is_operand_complete(s)
                   THEN biu_make_fetch_decision(s) ELSE s)
        ELSE IF s.t_cycle = "T4" THEN cycle_t4(s)
        ELSE s)

\* cycle_transition with the T4 arm leaving the bus status as it was
cycle_transition_keeps_status(s) ==
    CASE s.t_cycle = "TInit" -> [s EXCEPT !.t_cycle = "T1"]
      [] s.t_cycle = "T1" ->
            IF s.bus_status \in ActiveStatus THEN [s EXCEPT !.t_cycle = "T2"] ELSE s
      [] s.t_cycle = "T2" -> [s EXCEPT !.t_cycle = "T3"]
      [] s.t_cycle = "T3" ->
            IF s.wait_states = 0
            THEN [biu_bus_end(s) EXCEPT !.t_cycle = "T4"]
            ELSE [s EXCEPT !.t_cycle = "Tw"]
      [] s.t_cycle = "Tw" ->
            IF s.wait_states > 0
            THEN [s EXCEPT !.wait_states = @ - 1]
            ELSE [biu_bus_end(s) EXCEPT !.t_cycle = "T4"]
      [] s.t_cycle = "T4" -> [s EXCEPT !.t_cycle = "T1"]

\* "Transition to next T state"
cycle_transition(s) ==
    CASE s.t_cycle = "TInit" -> [s EXCEPT !.t_cycle = "T1"]
      [] s.t_cycle = "T1" ->
            IF s.bus_status \in ActiveStatus THEN [s EXCEPT !.t_cycle = "T2"] ELSE s
      [] s.t_cycle = "T2" -> [s EXCEPT !.t_cycle = "T3"]
      [] s.t_cycle = "T3" ->
            IF s.wait_states = 0
            THEN [biu_bus_end(s) EXCEPT !.t_cycle = "T4"]
            ELSE [s EXCEPT !.t_cycle = "Tw"]
      [] s.t_cycle = "Tw" ->
            IF s.wait_states > 0
            THEN [s EXCEPT !.wait_states = @ - 1]
            ELSE [biu_bus_end(s) EXCEPT !.t_cycle = "T4"]
      [] s.t_cycle = "T4" -> [s EXCEPT !.bus_status = "Passive", !.t_cycle = "T1"]

\* the code-fetch bus cycle the prefetcher begins
start_fetch(s) ==
    [s EXCEPT !.fetch_state = FsInProgress,
              !.bus_status = "CodeFetch",
              !.bus_segment = "CS",
              !.t_cycle = "T1",
              !.address_bus = s.pc,
              !.i8288.ale = TRUE,
              !.data_bus = 0,
              !.transfer_size = s.fetch_size,
              !.operand_size = IF s.fetch_size = "Byte" THEN "Operand8" ELSE "Operand16",
              !.transfer_n = 0]

\* cycle_prefetch starting the fetch one tick early
cycle_prefetch_early(s0) ==
    Let(biu_tick_prefetcher(s0), LAMBDA s :
        CASE s.fetch_state.k = "Scheduled" /\ s.fetch_state.n > 0 ->
                IF ~s.fetch_suspended /\ biu_queue_has_room(s) THEN start_fetch(s) ELSE s
          [] s.fetch_state.k = "Idle" ->
                IF s.queue_op = "Flush" THEN biu_schedule_fetch(s) ELSE s
          [] OTHER -> s)

\* cycle_prefetch without the look at the queue's room
cycle_prefetch_no_room_check(s0) ==
    Let(biu_tick_prefetcher(s0), LAMBDA s :
        CASE s.fetch_state.k = "Scheduled" /\ s.fetch_state.n > 1 ->
                IF ~s.fetch_suspended THEN start_fetch(s) ELSE s
          [] s.fetch_state.k = "Idle" ->
                IF s.queue_op = "Flush" THEN biu_schedule_fetch(s) ELSE s
          [] OTHER -> s)

\* cycle_prefetch without the look at the suspend-fetch hold
cycle_prefetch_ignores_suspend(s0) ==
    Let(biu_tick_prefetcher(s0), LAMBDA s :
        CASE s.fetch_state.k = "Scheduled" /\ s.fetch_state.n > 1 ->
                IF biu_queue_has_room(s) THEN start_fetch(s) ELSE s
          [] s.fetch_state.k = "Idle" ->
                IF s.queue_op = "Flush" THEN biu_schedule_fetch(s) ELSE s
          [] OTHER -> s)

\* "Handle prefetching"
cycle_prefetch(s0) ==
    Let(biu_tick_prefetcher(s0), LAMBDA s :
        CASE s.fetch_state.k = "Scheduled" /\ s.fetch_state.n > 1 ->
                IF ~s.fetch_suspended /\ biu_queue_has_room(s) THEN start_fetch(s) ELSE s
          [] s.fetch_state.k = "Idle" ->
                IF s.queue_op = "Flush" THEN biu_schedule_fetch(s) ELSE s
          [] OTHER -> s)

\* cycle_dram with the DMA controller given five transfer cycles
cycle_dram_holds_five(s) ==
    IF ~s.dram_refresh_simulation THEN s
    ELSE LET c  == s.dram_refresh_cycles + 1
             t1 == IF s.dram_refresh_has_bus
                   THEN (IF s.dram_transfer_cycles > 0 THEN s.dram_transfer_cycles - 1 ELSE 0)
                   ELSE s.dram_transfer_cycles
             h1 == IF s.dram_refresh_has_bus /\ t1 = 0 THEN FALSE ELSE s.dram_refresh_has_bus
         IN  IF c = s.dram_refresh_cycle_target
             THEN [s EXCEPT !.dram_refresh_has_bus = TRUE,
                            !.dram_transfer_cycles = DRAM_TRANSFER_CYCLES + 1,
                            !.dram_refresh_cycles = 0]
             ELSE [s EXCEPT !.dram_refresh_has_bus = h1,
                            !.dram_transfer_cycles = t1,
                            !.dram_refresh_cycles = c]

\* DRAM refresh (DMA channel 0) simulation
cycle_dram(s) ==
    IF ~s.dram_refresh_simulation THEN s
    ELSE LET c  == s.dram_refresh_cycles + 1
             t1 == IF s.dram_refresh_has_bus
                   THEN (IF s.dram_transfer_cycles > 0 THEN s.dram_transfer_cycles - 1 ELSE 0)
                   ELSE s.dram_transfer_cycles
             h1 == IF s.dram_refresh_has_bus /\ t1 = 0 THEN FALSE ELSE s.dram_refresh_has_bus
         IN  IF c = s.dram_refresh_cycle_target
             THEN [s EXCEPT !.dram_refresh_has_bus = TRUE,
                            !.dram_transfer_cycles = DRAM_TRANSFER_CYCLES,
                            !.dram_refresh_cycles = 0]
             ELSE [s EXCEPT !.dram_refresh_has_bus = h1,
                            !.dram_transfer_cycles = t1,
                            !.dram_refresh_cycles = c]

\* "Reset queue operation", the counters, the refresh simulation
cycle_tail(s) ==
    cycle_dram([s EXCEPT !.last_queue_op = s.queue_op,
                         !.queue_op = "Idle",
                         !.instr_cycle = @ + 1,
                         !.cycle_num = @ + 1])

\* the record of one cycle kept for the validator (feature cpu_validator): n
\* is the cycle's number within the step, cycle_num tells which cycle() call
\* made the record
get_cycle_state(s) == [n |-> s.instr_cycle, cycle_num |-> s.cycle_num]

cycle_states_push(s) == [s EXCEPT !.cycle_states = Append(@, get_cycle_state(s))]

cycle_i(s, ws) ==
    cycle_tail(cycle_prefetch(cycle_transition(cycle_states_push(cycle_t_state(s, ws)))))

RECURSIVE cycles(_, _, _)
cycles(s, ct, ws) ==
    IF ct <= 0 \/ s.panic # "" THEN s ELSE cycles(cycle_i(s, ws), ct - 1, ws)


(***************************************************************************)
(* Requests of the EU to the BIU.  A loop that drives cycle() until the    *)
(* bus answers spins at most MaxSpin times; a run that spins longer has    *)
(* never retired, which is recorded in `panic`.                            *)
(***************************************************************************)
bus_is_free(s) == s.bus_status = "Passive"

bus_is_finished(s) == s.bus_status = "Passive" \/ s.t_cycle = "T4"

RECURSIVE biu_bus_wait_free(_, _, _)
biu_bus_wait_free(s, ws, fuel) ==
    IF bus_is_free(s) \/ s.panic # "" THEN s
    ELSE IF fuel = 0 THEN [s EXCEPT !.panic = "hung"]
    ELSE biu_bus_wait_free(cycle_i(s, ws), ws, fuel - 1)

RECURSIVE biu_bus_wait_finish(_, _, _)
biu_bus_wait_finish(s, ws, fuel) ==
    IF bus_is_finished(s) \/ s.panic # "" THEN s
    ELSE IF fuel = 0 THEN [s EXCEPT !.panic = "hung"]
    ELSE biu_bus_wait_finish(cycle_i(s, ws), ws, fuel - 1)

\* the EU asks for the bus: a fetch that is only scheduled gives way
biu_bus_request(s) == biu_abort_fetch([s EXCEPT !.bus_pending_eu = TRUE])

\* the EU's bus cycle begins; rq = [status, segment, address, data, size, op_size, first]
biu_bus_start(s, rq) ==
    [s EXCEPT !.bus_pending_eu = FALSE,
              !.bus_status = rq.status,
              !.bus_segment = rq.segment,
              !.t_cycle = "TInit",
              !.address_bus = rq.address,
              !.i8288.ale = TRUE,
              !.data_bus = rq.data,
              !.transfer_size = rq.size,
              !.operand_size = rq.op_size,
              !.transfer_n = IF rq.first THEN 0 ELSE @]

biu_bus_begin(s, rq, ws) ==
    Then(biu_bus_wait_free(biu_bus_request(s), ws, MaxSpin), LAMBDA w :
         biu_bus_start(w, rq))

Rq(status, segment, address, data, size, op_size, first) ==
    [status |-> status, segment |-> segment, address |-> address, data |-> data,
     size |-> size, op_size |-> op_size, first |-> first]

\* one synchronous transfer of the EU
biu_transfer(s, rq, ws) == biu_bus_wait_finish(biu_bus_begin(s, rq, ws), ws, MaxSpin)

biu_write_u8(s, seg, addr, byte, ws) ==
    biu_transfer(s, Rq("MemWrite", seg, addr, byte, "Byte", "Operand8", TRUE), ws)

biu_read_u8(s, seg, addr, ws) ==
    biu_transfer(s, Rq("MemRead", seg, addr, 0, "Byte", "Operand8", TRUE), ws)

\* a word goes over the bus at the CPU's transfer width: two byte cycles on the 8088
biu_write_u16(s, seg, addr, word, ws) ==
    IF s.fetch_size = "Word"
    THEN biu_transfer(s, Rq("MemWrite", seg, addr, word, "Word", "Operand16", TRUE), ws)
    ELSE Then(biu_transfer(s, Rq("MemWrite", seg, addr, word % W8,
                                 "Byte", "Operand16", TRUE), ws), LAMBDA a :
              biu_transfer(a, Rq("MemWrite", seg, (addr + 1) % W20, word \div W8,
                                 "Byte", "Operand16", FALSE), ws))

\* the state after the read, and the word read
biu_read_u16(s, seg, addr, ws) ==
    IF s.fetch_size = "Word"
    THEN Let(biu_transfer(s, Rq("MemRead", seg, addr, 0, "Word", "Operand16", TRUE), ws),
             LAMBDA a : [s |-> a, v |-> a.data_bus])
    ELSE Let(biu_transfer(s, Rq("MemRead", seg, addr, 0, "Byte", "Operand16", TRUE), ws),
             LAMBDA a :
         Let(biu_transfer(a, Rq("MemRead", seg, (addr + 1) % W20, 0,
                                "Byte", "Operand16", FALSE), ws),
             LAMBDA b : [s |-> b, v |-> (a.data_bus % W8) + W8 * (b.data_bus % W8)]))

biu_suspend_fetch(s, ws) ==
    IF s.bus_status = "CodeFetch"
    THEN biu_bus_wait_finish([s EXCEPT !.fetch_suspended = TRUE], ws, MaxSpin)
    ELSE [s EXCEPT !.fetch_suspended = TRUE]

biu_queue_flush(s) ==
    biu_update_pc([queue_flush(s) EXCEPT !.queue_op = "Flush", !.fetch_suspended = FALSE])

RECURSIVE biu_queue_wait(_, _, _)
biu_queue_wait(s, ws, fuel) ==
    IF queue_len(s) > 0 \/ s.panic # "" THEN s
    ELSE IF fuel = 0 THEN [s EXCEPT !.panic = "hung"]
    ELSE biu_queue_wait(cycle_i(s, ws), ws, fuel - 1)

\* the byte leaves the queue; dtype is "First" or "Subsequent"
biu_queue_take(s, dtype) == [queue_pop(s) EXCEPT !.queue_op = dtype]

biu_queue_read(s, dtype, ws) ==
    Then(biu_queue_wait(trigger_prefetch_on_queue_read(s), ws, MaxSpin), LAMBDA w :
         cycle_i(biu_queue_take(w, dtype), ws))

(***************************************************************************)
(* Construction and reset.                                                 *)
(***************************************************************************)
NoInstruction == [kind |-> "NOP", size |-> 1, arg |-> 0, rep |-> FALSE]

DefaultCpu ==
    [cpu_type |-> "Intel8088", state |-> "Normal",
     cx |-> 0, sp |-> 0, cs |-> 0, ss |-> 0, ip |-> 0, flags |-> 0,
     address_bus |-> 0, data_bus |-> 0,
     bus |-> [mem |-> <<>>, bpe |-> {}, ret |-> {},
              pic |-> [intr |-> FALSE, vector |-> 0]],
     i8288 |-> [mrdc |-> FALSE, amwc |-> FALSE, mwtc |-> FALSE, iorc |-> FALSE,
                aiowc |-> FALSE, iowc |-> FALSE, ale |-> FALSE],
     pc |-> 0,
     queue |-> [size |-> 0, q |-> <<>>, preload |-> FALSE],
     fetch_size |-> "Byte", fetch_state |-> FsIdle, fetch_suspended |-> FALSE,
     bus_pending_eu |-> FALSE, queue_op |-> "Idle", last_queue_op |-> "Idle",
     t_cycle |-> "T1", bus_status |-> "Passive", bus_segment |-> "CS",
     transfer_size |-> "Byte", operand_size |-> "NoOperand", transfer_n |-> 0,
     wait_states |-> 0,
     halted |-> FALSE, is_running |-> FALSE, is_error |-> FALSE,
     in_rep |-> FALSE,
     cycle_num |-> 0, instr_cycle |-> 0, instruction_count |-> 0,
     i |-> NoInstruction,
     instruction_history_on |-> FALSE, instruction_history |-> <<>>,
     cycle_states |-> <<>>,
     call_stack |-> <<>>, breakpoints |-> {},
     int_count |-> 0, interrupt_inhibit |-> FALSE, pending_interrupt |-> FALSE,
     dram_refresh_simulation |-> FALSE, dram_refresh_cycle_target |-> 0,
     dram_refresh_cycles |-> 0, dram_transfer_cycles |-> 0,
     dram_refresh_has_bus |-> FALSE,
     panic |-> ""]

\* reset_vector = <<segment, offset>>
reset(s, reset_vector) ==
    LET r == [s EXCEPT !.state = "Normal",
                       !.cx = 0, !.sp = 0, !.ss = 0,
                       !.flags = CPU_FLAGS_RESERVED_ON,
                       !.queue.q = <<>>, !.queue.preload = FALSE,
                       !.cs = reset_vector[1], !.ip = reset_vector[2],
                       !.pc = calc_linear_address(reset_vector[1], reset_vector[2]),
                       !.bus_status = "Passive", !.t_cycle = "T1",
                       !.instruction_count = 0, !.int_count = 0,
                       !.in_rep = FALSE, !.halted = FALSE,
                       !.interrupt_inhibit = FALSE, !.pending_interrupt = FALSE,
                       !.is_error = FALSE,
                       !.instruction_history = <<>>, !.call_stack = <<>>,
                       !.cycle_num = 1,
                       !.i8288 = [mrdc |-> FALSE, amwc |-> FALSE, mwtc |-> FALSE,
                                  iorc |-> FALSE, aiowc |-> FALSE, iowc |-> FALSE,
                                  ale |-> FALSE],
                       !.address_bus = 0,
                       !.fetch_state = FsIdle]
        a == cycle_i(r, 0)
        b == cycles(biu_suspend_fetch(a, 0), 2, 0)
    IN  cycles(biu_queue_flush(b), 3, 0)

\* Cpu::new
new(cpu_type) ==
    LET c == [DefaultCpu EXCEPT !.cpu_type = cpu_type,
                                !.queue.size = IF cpu_type = "Intel8088" THEN 4 ELSE 6,
                                !.fetch_size = IF cpu_type = "Intel8088" THEN "Byte" ELSE "Word",
                                !.instruction_history_on = TRUE]
    IN  reset(c, <<65535, 0>>)

set_option_dram(s, state, target) ==
    [s EXCEPT !.dram_refresh_simulation = state, !.dram_refresh_cycle_target = target]

set_option_history(s, state) == [s EXCEPT !.instruction_history_on = state]

CpuTypes == {"Intel8088", "Intel8086"}

(***************************************************************************)
(* Stack, call stack and entry into interrupts and exceptions.             *)
(***************************************************************************)
push_u16(s, w, ws) ==
    LET a == [s EXCEPT !.sp = (s.sp + W16 - 2) % W16]
    IN  biu_write_u16(a, "SS", calc_linear_address(a.ss, a.sp), w, ws)

push_flags(s, ws) == push_u16(s, s.flags, ws)

\* reg is "CS" or "IP"
push_register16(s, reg, ws) == push_u16(s, IF reg = "CS" THEN s.cs ELSE s.ip, ws)

CallStackEntry(itype, number, ret_cs, ret_ip, call_cs, call_ip) ==
    [itype |-> itype, number |-> number, ret_cs |-> ret_cs, ret_ip |-> ret_ip,
     call_cs |-> call_cs, call_ip |-> call_ip]

push_call_stack(s, entry, cs, ip) ==
    [s EXCEPT !.call_stack = Append(@, entry),
              !.bus.ret = @ \cup {calc_linear_address(cs, ip)}]

ivt_address(vector) == calc_linear_address(0, (vector * INTERRUPT_VEC_LEN) % W16)

\* handle_exception pushing the address of the next instruction
handle_exception_pushes_next(s, exception, ws) ==
    Then(push_flags(s, ws), LAMBDA a :
    Then(push_register16(a, "CS", ws), LAMBDA b :
    Then(push_u16(b, (b.ip + b.i.size) % W16, ws), LAMBDA c :
    Let(read_u16(c.bus, ivt_address(exception)), LAMBDA new_ip :
    Let(read_u16(c.bus, ivt_address(exception) + 2), LAMBDA new_cs :
        biu_update_pc(biu_queue_flush(
             [push_call_stack(c, CallStackEntry("Exception", exception, c.cs, c.ip, new_cs, new_ip),
                              c.cs, c.ip)
                  EXCEPT !.ip = new_ip, !.cs = new_cs])))))))

handle_exception(s, exception, ws) ==
    Then(push_flags(s, ws), LAMBDA a :
    Then(push_register16(a, "CS", ws), LAMBDA b :
    Then(push_u16(b, b.ip, ws), LAMBDA c :
    Let(read_u16(c.bus, ivt_address(exception)), LAMBDA new_ip :
    Let(read_u16(c.bus, ivt_address(exception) + 2), LAMBDA new_cs :
        biu_update_pc(biu_queue_flush(
             [push_call_stack(c, CallStackEntry("Exception", exception, c.cs, c.ip, new_cs, new_ip),
                              c.cs, c.ip)
                  EXCEPT !.ip = new_ip, !.cs = new_cs])))))))

\* hw_interrupt clearing IF and TF before the flags are pushed
hw_interrupt_clears_first(s, interrupt, ws) ==
    Then(push_flags(clear_flag(clear_flag(s, CPU_FLAG_INT_ENABLE), CPU_FLAG_TRAP), ws), LAMBDA a :
    Then(push_register16(a, "CS", ws), LAMBDA b :
    Then(push_register16(b, "IP", ws), LAMBDA c :
    Let(read_u16(c.bus, ivt_address(interrupt)), LAMBDA new_ip :
    Let(read_u16(c.bus, ivt_address(interrupt) + 2), LAMBDA new_cs :
        [biu_update_pc(biu_queue_flush(
             [push_call_stack(c, CallStackEntry("Hardware", interrupt, c.cs, c.ip, new_cs, new_ip),
                              c.cs, c.ip)
                  EXCEPT !.ip = new_ip, !.cs = new_cs]))
             EXCEPT !.int_count = @ + 1])))))

hw_interrupt(s, interrupt, ws) ==
    Then(push_flags(s, ws), LAMBDA a :
    Then(push_register16(clear_flag(clear_flag(a, CPU_FLAG_INT_ENABLE), CPU_FLAG_TRAP), "CS", ws), LAMBDA b :
    Then(push_register16(b, "IP", ws), LAMBDA c :
    Let(read_u16(c.bus, ivt_address(interrupt)), LAMBDA new_ip :
    Let(read_u16(c.bus, ivt_address(interrupt) + 2), LAMBDA new_cs :
        [biu_update_pc(biu_queue_flush(
             [push_call_stack(c, CallStackEntry("Hardware", interrupt, c.cs, c.ip, new_cs, new_ip),
                              c.cs, c.ip)
                  EXCEPT !.ip = new_ip, !.cs = new_cs]))
             EXCEPT !.int_count = @ + 1])))))

\* the emulator's own service interrupt 0xFC is left out: AH is not modelled
sw_interrupt(s, interrupt, ws) ==
    Then(cycles(s, 3, ws), LAMBDA a :
    Let(biu_read_u16(a, "None", ivt_address(interrupt), ws), LAMBDA new_ip :
    Then(new_ip.s, LAMBDA a1 :
    Let(biu_read_u16(cycle_i(a1, ws), "None", ivt_address(interrupt) + 2, ws), LAMBDA new_cs :
    Then(new_cs.s, LAMBDA a2 :
    Then(cycles(biu_suspend_fetch(
                    push_call_stack(a2, CallStackEntry("Software", interrupt, a2.cs, a2.ip,
                                                       new_cs.v, new_ip.v), a2.cs, a2.ip),
                    ws), 2, ws), LAMBDA c :
    Then(push_flags(c, ws), LAMBDA d :
    Then(push_register16(cycles(clear_flag(clear_flag(d, CPU_FLAG_INT_ENABLE), CPU_FLAG_TRAP), 4, ws), "CS", ws),
         LAMBDA f :
    Then(cycle_i([f EXCEPT !.cs = new_cs.v], ws), LAMBDA g :
    Then(cycles(biu_queue_flush([cycles(g, 2, ws) EXCEPT !.ip = new_ip.v]), 3, ws), LAMBDA i :
    Then(push_u16(i, g.ip, ws), LAMBDA j :
         [j EXCEPT !.int_count = @ + 1])))))))))))

\* resume that leaves the CPU halted
resume_stays_halted(s) == s

resume(s) == [s EXCEPT !.halted = FALSE]

(***************************************************************************)
(* finalize: cycle until the next opcode byte is in the queue, preload it. *)
(***************************************************************************)
RECURSIVE finalize_wait(_, _, _)
finalize_wait(s, ws, finalize_timeout) ==
    Let(cycle_i(s, ws), LAMBDA a :
        IF finalize_timeout + 1 = FINALIZE_TIMEOUT
        THEN [a EXCEPT !.panic = "Finalize timeout!"]
        ELSE IF queue_len(a) = 0 THEN finalize_wait(a, ws, finalize_timeout + 1)
        ELSE a)

finalize(s, ws) ==
    IF s.in_rep \/ s.panic # "" THEN s
    ELSE IF queue_len(s) = 0
    THEN Then(finalize_wait(s, ws, 0), LAMBDA a : cycle_i(queue_set_preload(a), ws))
    ELSE cycle_i(queue_set_preload(trigger_prefetch_on_queue_read(s)), ws)

(***************************************************************************)
(* Decode and execute.  An instruction is its kind, its size in bytes and  *)
(* one argument; decode takes `size` bytes from the queue.                 *)
(***************************************************************************)
Instr(kind, size, arg) == [kind |-> kind, size |-> size, arg |-> arg, rep |-> kind = "REP_MOVSB"]

\* the first byte of an instruction: the byte finalize preloaded, if there is one
decode_first(s, ws) ==
    IF s.queue.preload THEN biu_queue_take(s, "First") ELSE biu_queue_read(s, "First", ws)

RECURSIVE decode_rest(_, _, _)
decode_rest(s, n, ws) ==
    IF n <= 0 \/ s.panic # "" THEN s
    ELSE decode_rest(biu_queue_read(s, "Subsequent", ws), n - 1, ws)

\* the state after the bytes are read, and whether they form an instruction
decode(s, instr, ws) ==
    [s |-> decode_rest(decode_first(s, ws), instr.size - 1, ws),
     ok |-> instr.kind # "INVALID"]

ExecResult(s, result) == [s |-> s, result |-> result]

\* one iteration of a repeated string move, or the end of the repetition
rep_movsb(s0, ws) ==
    LET s == [s0 EXCEPT !.in_rep = TRUE]
    IN  IF s.cx = 0 THEN ExecResult([cycle_i(s, ws) EXCEPT !.in_rep = FALSE], "Okay")
        ELSE Let(biu_read_u8(s, "DS", 768, ws), LAMBDA a :
             Let([cycle_i(biu_write_u8(a, "ES", 1024, a.data_bus % W8, ws), ws)
                      EXCEPT !.cx = s.cx - 1], LAMBDA c :
                 IF c.cx = 0 THEN ExecResult([c EXCEPT !.in_rep = FALSE], "Okay")
                 ELSE IF c.pending_interrupt
                 THEN ExecResult([c EXCEPT !.in_rep = FALSE], "OkayRep")
                 ELSE ExecResult(c, "OkayRep")))

jump_far(s, cs, ip, ws) ==
    Then(cycles(biu_suspend_fetch(s, ws), 2, ws), LAMBDA a :
         cycle_i(biu_queue_flush([a EXCEPT !.cs = cs, !.ip = ip]), ws))

execute_instruction(s0, ws) ==
    LET s == [s0 EXCEPT !.interrupt_inhibit = FALSE]
        k == s.i.kind
    IN  CASE k = "NOP" -> ExecResult(cycle_i(s, ws), "Okay")
          [] k = "STI" -> ExecResult(cycle_i(set_flag(s, CPU_FLAG_INT_ENABLE), ws), "Okay")
          [] k = "CLI" -> ExecResult(cycle_i(clear_flag(s, CPU_FLAG_INT_ENABLE), ws), "Okay")
          [] k = "MOV_SS" ->
                ExecResult(cycle_i([s EXCEPT !.ss = s.i.arg, !.interrupt_inhibit = TRUE], ws),
                           "Okay")
          [] k = "MOV_SP" -> ExecResult(cycle_i([s EXCEPT !.sp = s.i.arg], ws), "Okay")
          [] k = "MOV_CX" -> ExecResult(cycle_i([s EXCEPT !.cx = s.i.arg], ws), "Okay")
          [] k = "JMP_FAR" -> ExecResult(jump_far(s, s.i.arg[1], s.i.arg[2], ws), "OkayJump")
          [] k = "REP_MOVSB" -> rep_movsb(s, ws)
          [] k = "DIV0" -> ExecResult(cycle_i(s, ws), "DivideError")
          [] k = "HLT" ->
                ExecResult(cycle_i([s EXCEPT !.halted = TRUE], ws),
                           IF get_flag(s, CPU_FLAG_INT_ENABLE) THEN "Okay" ELSE "Halt")
          \* the other results ExecutionResult has
          [] k = "FAULT_EXEC" -> ExecResult(cycle_i(s, ws), "ExecutionError")
          [] k = "FAULT_EXC" -> ExecResult(cycle_i(s, ws), "NoException")
          [] k = "INT" ->
                ExecResult(sw_interrupt([s EXCEPT !.ip = (s.ip + s.i.size) % W16],
                                        s.i.arg, ws), "OkayJump")
          [] OTHER -> ExecResult(s, "UnsupportedOpcode")

(***************************************************************************)
(* step.  Beside the new state it yields what step returned, and what the  *)
(* registers were when step began (pre) and when an interrupt or an        *)
(* exception was entered (entry).                                          *)
(***************************************************************************)
Snapshot(s) ==
    [cs |-> s.cs, ip |-> s.ip, ss |-> s.ss, sp |-> s.sp, cx |-> s.cx,
     flags |-> s.flags, interrupt_inhibit |-> s.interrupt_inhibit,
     in_rep |-> s.in_rep, intr |-> s.bus.pic.intr, kind |-> s.i.kind,
     state |-> s.state, halted |-> s.halted, queue |-> s.queue, pc |-> s.pc,
     cycle_num |-> s.cycle_num, bpe |-> s.bus.bpe,
     is_error |-> s.is_error, is_running |-> s.is_running]

\* Ok((result, cycles)); call is the address a Call result carries
RetOk(result, ncycles, call, pre, entry, entered, vector) ==
    [kind |-> "Ok", result |-> result, err |-> "", cycles |-> ncycles, call |-> call,
     pre |-> pre, entry |-> entry, entered |-> entered, vector |-> vector,
     executed |-> "", exec_result |-> "", exec_ip |-> 0, exec_size |-> 0,
     skip_breakpoint |-> FALSE, nsteps |-> 0,
     validated |-> FALSE, cycle_states |-> <<>>, validated_at |-> 0, began |-> 0,
     prev_entered |-> "", retired |-> <<>>]

RetErr(err, pre) ==
    [kind |-> "Err", result |-> "", err |-> err, cycles |-> 0, call |-> <<>>,
     pre |-> pre, entry |-> pre, entered |-> "", vector |-> 0, executed |-> "",
     exec_result |-> "", exec_ip |-> 0, exec_size |-> 0,
     skip_breakpoint |-> FALSE, nsteps |-> 0,
     validated |-> FALSE, cycle_states |-> <<>>, validated_at |-> 0, began |-> 0,
     prev_entered |-> "", retired |-> <<>>]

\* no step has returned yet
NoRet == [RetErr("", Snapshot(DefaultCpu)) EXCEPT !.kind = "none"]

history_push(s, last_cs, last_ip) ==
    [s EXCEPT !.instruction_history =
                  Append(IF Len(@) = CPU_HISTORY_LEN THEN Tail(@) ELSE @,
                         <<last_cs, last_ip, s.i.kind>>),
              !.instruction_count = @ + 1]

\* the end of step: a pending interrupt is entered once the instruction has run
step_interrupt(s, check_interrupts, ok, pre, irq, ws) ==
    IF check_interrupts /\ s.pending_interrupt
    THEN [s |-> resume(hw_interrupt(s, irq, ws)),
          ret |-> RetOk("Call", s.instr_cycle, <<s.cs, s.ip>>, pre, Snapshot(s), "hw", irq)]
    ELSE [s |-> s, ret |-> ok]

\* step_retire with the OkayRep arm leaving check_interrupts false
step_retire_rep_unchecked(s, result, last_cs, last_ip, pre, irq, ws) ==
    CASE result \in {"Okay", "OkayJump", "OkayRep"} ->
            step_interrupt(
                CASE result = "Okay" ->
                        IF s.instruction_history_on
                        THEN history_push([s EXCEPT !.ip = (s.ip + s.i.size) % W16],
                                          last_cs, last_ip)
                        ELSE [s EXCEPT !.ip = (s.ip + s.i.size) % W16]
                  [] result = "OkayJump" ->
                        IF s.instruction_history_on
                        THEN history_push(s, last_cs, last_ip) ELSE s
                  [] OTHER -> history_push(s, last_cs, last_ip),
                result # "OkayRep",
                RetOk("Normal", s.instr_cycle, <<>>, pre, pre, "", 0), pre, irq, ws)
      [] result = "DivideError" ->
            Let(handle_exception(s, 0, ws), LAMBDA h :
                [s |-> h,
                 ret |-> RetOk("Normal", h.instr_cycle, <<>>, pre, Snapshot(s),
                               "exception", 0)])
      [] result = "Halt" ->
            [s |-> [s EXCEPT !.is_running = FALSE, !.is_error = TRUE],
             ret |-> RetErr("CpuHaltedError", pre)]
      [] result = "ExecutionError" ->
            [s |-> [s EXCEPT !.is_running = FALSE, !.is_error = TRUE],
             ret |-> RetErr("ExecutionError", pre)]
      [] result = "NoException" ->
            [s |-> s, ret |-> RetErr("ExceptionError", pre)]
      [] OTHER ->
            [s |-> [s EXCEPT !.is_running = FALSE, !.is_error = TRUE],
             ret |-> RetErr("UnhandledInstructionError", pre)]

\* step_retire_rep_unchecked with the OkayJump result retired as Okay is, IP
\* advanced by the size of the instruction
step_retire_jump_advances(s, result, last_cs, last_ip, pre, irq, ws) ==
    step_retire_rep_unchecked(s, IF result = "OkayJump" THEN "Okay" ELSE result,
                              last_cs, last_ip, pre, irq, ws)

\* the match on execute_instruction's result; check_interrupts is set in
\* each of the three Okay arms
step_retire(s, result, last_cs, last_ip, pre, irq, ws) ==
    CASE result \in {"Okay", "OkayJump", "OkayRep"} ->
            step_interrupt(
                CASE result = "Okay" ->
                        IF s.instruction_history_on
                        THEN history_push([s EXCEPT !.ip = (s.ip + s.i.size) % W16],
                                          last_cs, last_ip)
                        ELSE [s EXCEPT !.ip = (s.ip + s.i.size) % W16]
                  [] result = "OkayJump" ->
                        IF s.instruction_history_on
                        THEN history_push(s, last_cs, last_ip) ELSE s
                  [] OTHER -> history_push(s, last_cs, last_ip),
                TRUE,
                RetOk("Normal", s.instr_cycle, <<>>, pre, pre, "", 0), pre, irq, ws)
      [] result = "DivideError" ->
            Let(handle_exception(s, 0, ws), LAMBDA h :
                [s |-> h,
                 ret |-> RetOk("Normal", h.instr_cycle, <<>>, pre, Snapshot(s),
                               "exception", 0)])
      [] result = "Halt" ->
            [s |-> [s EXCEPT !.is_running = FALSE, !.is_error = TRUE],
             ret |-> RetErr("CpuHaltedError", pre)]
      [] result = "ExecutionError" ->
            [s |-> [s EXCEPT !.is_running = FALSE, !.is_error = TRUE],
             ret |-> RetErr("ExecutionError", pre)]
      [] result = "NoException" ->
            [s |-> s, ret |-> RetErr("ExceptionError", pre)]
      [] OTHER ->
            [s |-> [s EXCEPT !.is_running = FALSE, !.is_error = TRUE],
             ret |-> RetErr("UnhandledInstructionError", pre)]

\* fetch, decode, execute, finalize; `executed` tells which instruction ran,
\* exec_ip and exec_size the IP execution left and the size of the instruction
\* validator_begin keeping the records of the cycles before the instruction
validator_begin_keeps_records(s) == s

\* "Initialize the CPU validator with the current register state."
validator_begin(s) == [s EXCEPT !.cycle_states = <<>>]

\* "validate the executed instruction": what validate is called with, if it
\* is called; the validator itself is external and is taken to accept
validator_validate(r, f, exec_result) ==
    IF exec_result \in {"Okay", "OkayJump"}
    THEN [r EXCEPT !.ret.validated = TRUE,
                   !.ret.cycle_states = f.cycle_states,
                   !.ret.validated_at = f.cycle_num]
    ELSE r

step_run(s, instr, pre, irq, ws) ==
    Let(IF s.in_rep THEN [s |-> s, ok |-> TRUE]
        ELSE decode(validator_begin(s), instr, ws), LAMBDA d :
        IF ~d.ok
        THEN [s |-> [d.s EXCEPT !.is_running = FALSE, !.is_error = TRUE],
              ret |-> RetErr("InstructionDecodeError", pre)]
        ELSE Let(execute_instruction(IF s.in_rep THEN s ELSE [d.s EXCEPT !.i = instr], ws),
                 LAMBDA x :
             Let(finalize(x.s, ws), LAMBDA f :
             Let(step_retire(f, x.result, s.cs, s.ip, pre, irq, ws),
                 LAMBDA r : [validator_validate(r, f, x.result)
                                 EXCEPT !.ret.executed = x.s.i.kind,
                                        !.ret.exec_result = x.result,
                                        !.ret.exec_ip = x.s.ip,
                                        !.ret.exec_size = x.s.i.size]))))

\* step without the look at the breakpoint state left by an earlier hit
step_forgets_hit(s_in, skip_breakpoint, instr, ws) ==
    LET pre == Snapshot(s_in)
        s0 == [s_in EXCEPT !.instr_cycle = 0, !.pending_interrupt = FALSE]
        line == interrupts_enabled(s0) /\ s0.bus.pic.intr
        irq == IF line THEN s0.bus.pic.vector ELSE 7
        s1 == IF line THEN [s0 EXCEPT !.bus.pic.intr = FALSE] ELSE s0
        s2 == IF line /\ ~s1.halted THEN [s1 EXCEPT !.pending_interrupt = TRUE] ELSE s1
        instruction_address == calc_linear_address(s2.cs, s2.ip)
    IN  IF line /\ s1.halted
        THEN [s |-> hw_interrupt(resume(s1), irq, ws),
              ret |-> RetOk("Call", 3, <<s1.cs, s1.ip>>, pre, Snapshot(resume(s1)), "hw", irq)]
        ELSE IF s2.halted
        THEN [s |-> s2, ret |-> RetOk("Normal", 3, <<>>, pre, pre, "", 0)]
        ELSE IF ~skip_breakpoint /\ instruction_address \in s2.bus.bpe
        THEN [s |-> [s2 EXCEPT !.state = "BreakpointHit"],
              ret |-> RetOk("BreakpointHit", 0, <<>>, pre, pre, "", 0)]
        ELSE step_run(s2, instr, pre, irq, ws)

step(s_in, skip_breakpoint, instr, ws) ==
    LET pre == Snapshot(s_in)
        s0 == [s_in EXCEPT !.instr_cycle = 0, !.pending_interrupt = FALSE]
        line == interrupts_enabled(s0) /\ s0.bus.pic.intr
        irq == IF line THEN s0.bus.pic.vector ELSE 7
        \* get_interrupt_vector acknowledges the request
        s1 == IF line THEN [s0 EXCEPT !.bus.pic.intr = FALSE] ELSE s0
        s2 == IF line /\ ~s1.halted THEN [s1 EXCEPT !.pending_interrupt = TRUE] ELSE s1
        instruction_address == calc_linear_address(s2.cs, s2.ip)
    IN  IF line /\ s1.halted
        THEN [s |-> hw_interrupt(resume(s1), irq, ws),
              ret |-> RetOk("Call", 3, <<s1.cs, s1.ip>>, pre, Snapshot(resume(s1)), "hw", irq)]
        ELSE IF s2.halted
        THEN [s |-> s2, ret |-> RetOk("Normal", 3, <<>>, pre, pre, "", 0)]
        ELSE IF s2.state = "BreakpointHit"
        THEN [s |-> s2, ret |-> RetOk("BreakpointHit", 0, <<>>, pre, pre, "", 0)]
        ELSE IF ~skip_breakpoint /\ instruction_address \in s2.bus.bpe
        THEN [s |-> [s2 EXCEPT !.state = "BreakpointHit"],
              ret |-> RetOk("BreakpointHit", 0, <<>>, pre, pre, "", 0)]
        ELSE step_run(s2, instr, pre, irq, ws)

\* bp_list: the linear addresses of the execute breakpoints
set_breakpoints(s, bp_list) ==
    [s EXCEPT !.bus.bpe = (@ \ s.breakpoints) \cup bp_list,
              !.breakpoints = bp_list]

clear_breakpoint_flag(s) == [s EXCEPT !.state = "Normal"]

(***************************************************************************)
(* SpecBus: the BIU and the EU, one cycle() call per step.  `eu` is the    *)
(* place of the EU inside the request it has made to the BIU.              *)
(***************************************************************************)
EuIdle == [pos |-> "idle", rq |-> Rq("Passive", "CS", 0, 0, "Byte", "NoOperand", TRUE)]

\* the transfers the EU asks for in this specification
EuRequests ==
    { Rq("MemRead", "DS", 256, 0, "Byte", "Operand8", TRUE),
      Rq("MemWrite", "SS", 512, 165, "Byte", "Operand8", TRUE),
      Rq("IORead", "CS", 97, 0, "Byte", "Operand8", TRUE),
      Rq("IOWrite", "CS", 97, 90, "Byte", "Operand8", TRUE) }

RefreshTargets == {5}

InitBus ==
    /\ cpu \in {set_option_dram(new(t), d, g) :
                    t \in CpuTypes, d \in BOOLEAN, g \in RefreshTargets}
    /\ eu = EuIdle
    /\ ret = NoRet

\* one cycle() call in which the bus target answers ws wait states; the EU's
\* wait loops end where their conditions say
CycleWith(ws) ==
    /\ cpu.panic = ""
    /\ cpu.cycle_num < MaxBusCycles
    /\ \/ eu.pos \in {"idle", "queue_cycle", "flushed"}
       \/ eu.pos = "bus_wait" /\ ~bus_is_free(cpu)
       \/ eu.pos \in {"bus_xfer", "susp_wait"} /\ ~bus_is_finished(cpu)
       \/ eu.pos = "queue_wait" /\ queue_len(cpu) = 0
    /\ (ws > 0 => (cpu.t_cycle = "T3" /\ cpu.bus_status \in ActiveStatus))
    /\ cpu' = cycle_i(cpu, ws)
    /\ eu' = [eu EXCEPT !.pos = IF @ \in {"queue_cycle", "flushed"} THEN "idle" ELSE @]

\* one cycle() call
Cycle == \E ws \in 0..MaxWait : CycleWith(ws)

BusCycle == Cycle /\ UNCHANGED ret

\* a wait loop of the EU has met its condition
EuWaitDone ==
    /\ cpu.panic = ""
    /\ eu.pos \in {"bus_xfer", "susp_wait"}
    /\ bus_is_finished(cpu)
    /\ eu' = [eu EXCEPT !.pos = "idle"]
    /\ UNCHANGED <<cpu, ret>>

\* biu_bus_begin up to its wait for the bus
EuBusRequest ==
    /\ cpu.panic = ""
    /\ eu.pos = "idle"
    /\ \E rq \in EuRequests :
          /\ cpu' = biu_bus_request(cpu)
          /\ eu' = [pos |-> "bus_wait", rq |-> rq]
    /\ UNCHANGED ret

\* biu_bus_begin once the bus is free
EuBusStart ==
    /\ cpu.panic = ""
    /\ eu.pos = "bus_wait"
    /\ bus_is_free(cpu)
    /\ cpu' = biu_bus_start(cpu, eu.rq)
    /\ eu' = [eu EXCEPT !.pos = "bus_xfer"]
    /\ UNCHANGED ret

\* biu_queue_read up to its wait for a byte
EuQueueRead ==
    /\ cpu.panic = ""
    /\ eu.pos \in {"idle", "flushed"}
    /\ cpu' = trigger_prefetch_on_queue_read(cpu)
    /\ eu' = [eu EXCEPT !.pos = "queue_wait"]
    /\ UNCHANGED ret

\* biu_queue_read once a byte is there
EuQueuePop ==
    /\ cpu.panic = ""
    /\ eu.pos = "queue_wait"
    /\ queue_len(cpu) > 0
    /\ \E dtype \in {"First", "Subsequent"} : cpu' = biu_queue_take(cpu, dtype)
    /\ eu' = [eu EXCEPT !.pos = "queue_cycle"]
    /\ UNCHANGED ret

\* biu_suspend_fetch up to its wait for the fetch in flight
EuSuspend ==
    /\ cpu.panic = ""
    /\ eu.pos = "idle"
    /\ ~cpu.fetch_suspended
    /\ cpu' = [cpu EXCEPT !.fetch_suspended = TRUE]
    /\ eu' = [eu EXCEPT !.pos = IF cpu.bus_status = "CodeFetch" THEN "susp_wait" ELSE "idle"]
    /\ UNCHANGED ret

\* biu_queue_flush.  Every caller flushes after a suspend or after a stack
\* push, so never under a code fetch that is still on the bus, and what every
\* caller does next is a cycle() call or the first queue read of the next
\* instruction.
EuFlush ==
    /\ cpu.panic = ""
    /\ eu.pos = "idle"
    /\ cpu.bus_status # "CodeFetch"
    /\ cpu' = biu_queue_flush(cpu)
    /\ eu' = [eu EXCEPT !.pos = "flushed"]
    /\ UNCHANGED ret

NextBus ==
    \/ BusCycle
    \/ EuWaitDone
    \/ EuBusRequest
    \/ EuBusStart
    \/ EuQueueRead
    \/ EuQueuePop
    \/ EuSuspend
    \/ EuFlush

SpecBus == InitBus /\ [][NextBus]_vars


(***************************************************************************)
(* Spec: one step() call per step, over an abstract instruction stream,    *)
(* with the interrupt controller raising a request at any time.            *)
(***************************************************************************)
JumpTargets == {<<4096, 65535>>}

Instructions ==
    {Instr("NOP", 1, 0), Instr("STI", 1, 0), Instr("CLI", 1, 0),
     Instr("MOV_SS", 2, 80), Instr("MOV_SP", 3, 256), Instr("MOV_CX", 3, 2),
     Instr("REP_MOVSB", 2, 0), Instr("DIV0", 2, 0), Instr("INT", 2, 33),
     Instr("HLT", 1, 0), Instr("FAULT_EXEC", 1, 0), Instr("FAULT_EXC", 1, 0),
     Instr("INVALID", 1, 0)}
        \cup {Instr("JMP_FAR", 5, tg) : tg \in JumpTargets}

IrqVectors == {8}

\* the breakpoint lists the debugger sets: none, or the second and third byte
\* after the power-on vector
BreakpointLists == {{}, {1048561, 1048562}}

\* the vectors the machine is reset to: the power-on vector, and the last byte
\* of a segment
ResetVectors == {<<65535, 0>>, <<4096, 65535>>}

Init ==
    /\ cpu \in {new(t) : t \in CpuTypes}
    /\ eu = EuIdle
    /\ ret = NoRet

\* one step() call over an instruction of `instructions`
StepOver(instructions, max_cycle_num, max_steps) ==
    /\ cpu.panic = ""
    /\ cpu.cycle_num < max_cycle_num
    /\ ret.nsteps < max_steps
    /\ ~cpu.is_error
    /\ \E skip_breakpoint \in BOOLEAN, instr \in instructions :
          \E r \in {step(cpu, skip_breakpoint, instr, 0)} :
              /\ cpu' = r.s
              /\ ret' = [r.ret EXCEPT !.skip_breakpoint = skip_breakpoint,
                                      !.nsteps = ret.nsteps + 1,
                                      \* the cycle in which the instruction
                                      \* now being run was begun
                                      !.began = IF cpu.in_rep THEN ret.began
                                                ELSE cpu.cycle_num,
                                      \* how the step before this one ended
                                      !.prev_entered = ret.entered,
                                      \* the instructions retired so far
                                      !.retired =
                                          IF r.ret.exec_result \in {"Okay", "OkayJump"}
                                          THEN Append(ret.retired,
                                                      <<cpu.cs, cpu.ip, r.ret.executed>>)
                                          ELSE ret.retired]
    /\ UNCHANGED eu

Step == StepOver(Instructions, MaxCycleNum, MaxSteps)

\* the interrupt controller raises its request line
RaiseIrq ==
    /\ cpu.panic = ""
    /\ ~cpu.bus.pic.intr
    /\ \E v \in IrqVectors : cpu' = [cpu EXCEPT !.bus.pic = [intr |-> TRUE, vector |-> v]]
    /\ UNCHANGED <<eu, ret>>

\* reset(reset_vector), called once on the machine as it was constructed
Reset ==
    /\ cpu.panic = ""
    /\ ret = NoRet
    /\ cpu.instr_cycle + 1 = cpu.cycle_num
    /\ \E v \in ResetVectors : cpu' = reset(cpu, v)
    /\ UNCHANGED <<eu, ret>>

\* the debugger replaces the breakpoint list, before the run
SetBreakpoints ==
    /\ cpu.panic = ""
    /\ ret = NoRet
    /\ \E bp_list \in BreakpointLists :
          /\ bp_list # cpu.breakpoints
          /\ cpu' = set_breakpoints(cpu, bp_list)
    /\ UNCHANGED <<eu, ret>>

\* the debugger acknowledges a breakpoint hit
ClearBreakpointFlag ==
    /\ cpu.panic = ""
    /\ cpu.state = "BreakpointHit"
    /\ cpu' = clear_breakpoint_flag(cpu)
    /\ UNCHANGED <<eu, ret>>

Next == Step \/ RaiseIrq \/ Reset \/ SetBreakpoints \/ ClearBreakpointFlag

Spec == Init /\ [][Next]_vars

(***************************************************************************)
(* SpecValidator: runs of instructions the validator is shown, long enough *)
(* for a REP instruction to retire steps after it was fetched and for the  *)
(* handler of a hardware interrupt to run.                                 *)
(***************************************************************************)
\* cycle() calls after which no further step is taken
MaxValidatorCycles == 48

\* step() calls in a run
MaxValidatorSteps == 5

ValidatedInstructions ==
    {Instr("NOP", 1, 0), Instr("STI", 1, 0), Instr("MOV_CX", 3, 2),
     Instr("REP_MOVSB", 2, 0), Instr("DIV0", 2, 0)}
        \cup {Instr("JMP_FAR", 5, tg) : tg \in JumpTargets}

StepValidated == StepOver(ValidatedInstructions, MaxValidatorCycles, MaxValidatorSteps)

NextValidator == StepValidated \/ RaiseIrq \/ Reset

SpecValidator == Init /\ [][NextValidator]_vars

(***************************************************************************)
(* SpecReset: cycle() calls on a constructed CPU, then one reset() on the  *)
(* state they have left, then the cycle() calls that follow, up to the     *)
(* end of the first code fetch.  ret tells the reset made: its vector in   *)
(* call, the state before it in pre, the cycle() calls since in nsteps.    *)
(***************************************************************************)
\* cycle() calls explored before the reset
MaxPreCycles == 6
\* cycle() calls explored after the reset
MaxPostCycles == 5

\* the first cycle_num a constructed CPU has: reset sets 1 and runs 6 cycles
CycleNumAfterReset == new("Intel8088").cycle_num

ResetDone(v, pre, n) ==
    [NoRet EXCEPT !.executed = "reset", !.call = v, !.pre = pre, !.nsteps = n]

PreResetCycle ==
    /\ cpu.panic = ""
    /\ ret.kind = "none" /\ ret.executed = ""
    /\ cpu.cycle_num < CycleNumAfterReset + MaxPreCycles
    /\ \E ws \in 0..MaxWait :
          /\ (ws > 0 => (cpu.t_cycle = "T3" /\ cpu.bus_status \in ActiveStatus))
          /\ cpu' = cycle_i(cpu, ws)
    /\ UNCHANGED <<eu, ret>>

ResetCpu ==
    /\ cpu.panic = ""
    /\ ret.executed = ""
    /\ \E v \in ResetVectors :
          /\ cpu' = reset(cpu, v)
          /\ ret' = ResetDone(v, Snapshot(cpu), 0)
    /\ UNCHANGED eu

PostResetCycle ==
    /\ cpu.panic = ""
    /\ ret.executed = "reset"
    /\ ret.nsteps < MaxPostCycles
    /\ \E ws \in 0..MaxWait :
          /\ (ws > 0 => (cpu.t_cycle = "T3" /\ cpu.bus_status \in ActiveStatus))
          /\ cpu' = cycle_i(cpu, ws)
    /\ ret' = [ret EXCEPT !.nsteps = @ + 1]
    /\ UNCHANGED eu

NextReset == PreResetCycle \/ ResetCpu \/ PostResetCycle

SpecReset == InitBus /\ [][NextReset]_vars

(***************************************************************************)
(* SpecDram: cycle() calls on a CPU constructed with the DRAM-refresh      *)
(* simulation switched on, for every period up to MaxPeriod.  In ret,      *)
(* cycles tells for how many cycles in a row the DMA controller has had    *)
(* the bus, nsteps how many times it has been granted it.                  *)
(***************************************************************************)
\* the longest refresh period configured
MaxPeriod == 7
\* cycle() calls explored
MaxDramCycles == 16

RefreshPeriods == 0..MaxPeriod

InitDram ==
    /\ cpu \in {set_option_dram(new(t), TRUE, g) : t \in CpuTypes, g \in RefreshPeriods}
    /\ eu = EuIdle
    /\ ret = NoRet

DramCycle ==
    /\ cpu.panic = ""
    /\ cpu.cycle_num < CycleNumAfterReset + MaxDramCycles
    /\ \E ws \in 0..MaxWait :
          /\ (ws > 0 => (cpu.t_cycle = "T3" /\ cpu.bus_status \in ActiveStatus))
          /\ cpu' = cycle_i(cpu, ws)
    /\ ret' = [ret EXCEPT
                  !.cycles = IF cpu'.dram_refresh_has_bus THEN @ + 1 ELSE 0,
                  !.nsteps = IF cpu'.dram_refresh_cycles = 0 THEN @ + 1 ELSE @]
    /\ UNCHANGED eu

NextDram == DramCycle

SpecDram == InitDram /\ [][NextDram]_vars

(***************************************************************************)
(* Bitwise operations on 16-bit words.                                     *)
(***************************************************************************)
RECURSIVE BitAnd(_, _)
BitAnd(x, y) ==
    IF x = 0 \/ y = 0 THEN 0
    ELSE (x % 2) * (y % 2) + 2 * BitAnd(x \div 2, y \div 2)

RECURSIVE BitOr(_, _)
BitOr(x, y) ==
    IF x = 0 THEN y
    ELSE IF y = 0 THEN x
    ELSE (IF x % 2 = 1 \/ y % 2 = 1 THEN 1 ELSE 0) + 2 * BitOr(x \div 2, y \div 2)

\* !x on a u16
BitNot(x) == W16 - 1 - x

(***************************************************************************)
(* The register file: every general register is kept three times, as the   *)
(* word and as its two halves.                                             *)
(***************************************************************************)
REGISTER_HI_MASK == 255
REGISTER_LO_MASK == 65280

Registers8 == {"AH", "AL", "BH", "BL", "CH", "CL", "DH", "DL"}
Registers16 == {"AX", "BX", "CX", "DX", "SP"}

\* the registers and the flags of a Cpu as Default::default() makes it
DefaultRegisters ==
    [ah |-> 0, al |-> 0, ax |-> 0, bh |-> 0, bl |-> 0, bx |-> 0,
     ch |-> 0, cl |-> 0, cx |-> 0, dh |-> 0, dl |-> 0, dx |-> 0,
     sp |-> 0, flags |-> 0, interrupt_inhibit |-> FALSE]

get_register8(s, reg) ==
    CASE reg = "AH" -> s.ah [] reg = "AL" -> s.al
      [] reg = "BH" -> s.bh [] reg = "BL" -> s.bl
      [] reg = "CH" -> s.ch [] reg = "CL" -> s.cl
      [] reg = "DH" -> s.dh [] reg = "DL" -> s.dl

get_register16(s, reg) ==
    CASE reg = "AX" -> s.ax [] reg = "BX" -> s.bx
      [] reg = "CX" -> s.cx [] reg = "DX" -> s.dx
      [] reg = "SP" -> s.sp

\* set_register8 with the two masks exchanged
set_register8_masks_swapped(s, reg, value) ==
    CASE reg = "AH" ->
            [s EXCEPT !.ah = value,
                      !.ax = BitOr(BitAnd(s.ax, REGISTER_LO_MASK), (value * 256) % W16)]
      [] reg = "AL" ->
            [s EXCEPT !.al = value,
                      !.ax = BitOr(BitAnd(s.ax, REGISTER_HI_MASK), value)]
      [] reg = "BH" ->
            [s EXCEPT !.bh = value,
                      !.bx = BitOr(BitAnd(s.bx, REGISTER_LO_MASK), (value * 256) % W16)]
      [] reg = "BL" ->
            [s EXCEPT !.bl = value,
                      !.bx = BitOr(BitAnd(s.bx, REGISTER_HI_MASK), value)]
      [] reg = "CH" ->
            [s EXCEPT !.ch = value,
                      !.cx = BitOr(BitAnd(s.cx, REGISTER_LO_MASK), (value * 256) % W16)]
      [] reg = "CL" ->
            [s EXCEPT !.cl = value,
                      !.cx = BitOr(BitAnd(s.cx, REGISTER_HI_MASK), value)]
      [] reg = "DH" ->
            [s EXCEPT !.dh = value,
                      !.dx = BitOr(BitAnd(s.dx, REGISTER_LO_MASK), (value * 256) % W16)]
      [] reg = "DL" ->
            [s EXCEPT !.dl = value,
                      !.dx = BitOr(BitAnd(s.dx, REGISTER_HI_MASK), value)]

\* value is a u8; REGISTER_HI_MASK keeps the low byte of the word,
\* REGISTER_LO_MASK the high byte
set_register8(s, reg, value) ==
    CASE reg = "AH" ->
            [s EXCEPT !.ah = value,
                      !.ax = BitOr(BitAnd(s.ax, REGISTER_HI_MASK), (value * 256) % W16)]
      [] reg = "AL" ->
            [s EXCEPT !.al = value,
                      !.ax = BitOr(BitAnd(s.ax, REGISTER_LO_MASK), value)]
      [] reg = "BH" ->
            [s EXCEPT !.bh = value,
                      !.bx = BitOr(BitAnd(s.bx, REGISTER_HI_MASK), (value * 256) % W16)]
      [] reg = "BL" ->
            [s EXCEPT !.bl = value,
                      !.bx = BitOr(BitAnd(s.bx, REGISTER_LO_MASK), value)]
      [] reg = "CH" ->
            [s EXCEPT !.ch = value,
                      !.cx = BitOr(BitAnd(s.cx, REGISTER_HI_MASK), (value * 256) % W16)]
      [] reg = "CL" ->
            [s EXCEPT !.cl = value,
                      !.cx = BitOr(BitAnd(s.cx, REGISTER_LO_MASK), value)]
      [] reg = "DH" ->
            [s EXCEPT !.dh = value,
                      !.dx = BitOr(BitAnd(s.dx, REGISTER_HI_MASK), (value * 256) % W16)]
      [] reg = "DL" ->
            [s EXCEPT !.dl = value,
                      !.dx = BitOr(BitAnd(s.dx, REGISTER_LO_MASK), value)]

\* value is a u16; `as u8` keeps the low byte
set_register16(s, reg, value) ==
    CASE reg = "AX" ->
            [s EXCEPT !.ax = value, !.ah = (value \div 256) % W8,
                      !.al = BitAnd(value, REGISTER_HI_MASK) % W8]
      [] reg = "BX" ->
            [s EXCEPT !.bx = value, !.bh = (value \div 256) % W8,
                      !.bl = BitAnd(value, REGISTER_HI_MASK) % W8]
      [] reg = "CX" ->
            [s EXCEPT !.cx = value, !.ch = (value \div 256) % W8,
                      !.cl = BitAnd(value, REGISTER_HI_MASK) % W8]
      [] reg = "DX" ->
            [s EXCEPT !.dx = value, !.dh = (value \div 256) % W8,
                      !.dl = BitAnd(value, REGISTER_HI_MASK) % W8]
      [] reg = "SP" -> [s EXCEPT !.sp = value]

\* wrapping_sub(1)
decrement_register8(s, reg) ==
    set_register8(s, reg, (get_register8(s, reg) + W8 - 1) % W8)

decrement_register16(s, reg) ==
    set_register16(s, reg, (get_register16(s, reg) + W16 - 1) % W16)

\* what reset does to the registers and to the flags
reset_registers(s) ==
    [set_register16(set_register16(set_register16(set_register16(set_register16(
         s, "AX", 0), "BX", 0), "CX", 0), "DX", 0), "SP", 0)
     EXCEPT !.flags = CPU_FLAGS_RESERVED_ON, !.interrupt_inhibit = FALSE]

(***************************************************************************)
(* The flag word.                                                          *)
(***************************************************************************)
CPU_FLAG_CARRY == 1
CPU_FLAG_PARITY == 4
CPU_FLAG_RESERVED3 == 8
CPU_FLAG_AUX_CARRY == 16
CPU_FLAG_RESERVED5 == 32
CPU_FLAG_ZERO == 64
CPU_FLAG_SIGN == 128
CPU_FLAG_DIRECTION == 1024
CPU_FLAG_OVERFLOW == 2048
CPU_FLAGS_RESERVED_OFF == BitNot(BitOr(CPU_FLAG_RESERVED3, CPU_FLAG_RESERVED5))

\* the masks of the values of enum Flag
Flags ==
    {CPU_FLAG_CARRY, CPU_FLAG_PARITY, CPU_FLAG_AUX_CARRY, CPU_FLAG_ZERO,
     CPU_FLAG_SIGN, CPU_FLAG_TRAP, CPU_FLAG_INT_ENABLE, CPU_FLAG_DIRECTION,
     CPU_FLAG_OVERFLOW}

\* set_flags without the two masks
set_flags_unmasked(s, flags) == [s EXCEPT !.flags = flags]

set_flags(s, flags) ==
    [s EXCEPT !.flags = BitOr(BitAnd(flags, CPU_FLAGS_RESERVED_OFF),
                              CPU_FLAGS_RESERVED_ON)]

set_flag_state(s, m, state) == IF state THEN set_flag(s, m) ELSE clear_flag(s, m)

\* store_flags copying every bit of its argument
store_flags_all_bits(s, bits) == [s EXCEPT !.flags = bits]

store_flags(s, bits) ==
    LET flag_mask == BitNot(BitOr(CPU_FLAG_CARRY, BitOr(CPU_FLAG_PARITY,
                         BitOr(CPU_FLAG_AUX_CARRY, BitOr(CPU_FLAG_ZERO, CPU_FLAG_SIGN)))))
    IN  [s EXCEPT !.flags = BitOr(BitAnd(s.flags, flag_mask),
                                  BitAnd(bits, BitNot(flag_mask)))]

load_flags(s) == BitAnd(s.flags, 255)

(***************************************************************************)
(* SpecRegs: calls of the register setters, in any order, on the registers *)
(* as construction leaves them.  SpecFlags: the same for the flag word.    *)
(* `last` in ret tells the call made and the flag word before it.          *)
(***************************************************************************)
\* calls explored
MaxCalls == 3

Values8 == {0, 18, 255}
Values16 == {0, 256, 4660, 65535}

\* arguments of set_flags and store_flags: no bit, every bit, the two
\* reserved-off bits, the arithmetic flags, the control flags, the reserved-on
\* bits alone, and a mixture
FlagWords == {0, 65535, 40, 213, 3840, 61442, 42405}

Called(n, op, arg, before) ==
    [NoRet EXCEPT !.nsteps = n, !.executed = op, !.vector = arg, !.pre.flags = before]

InitRegs ==
    /\ cpu = reset_registers(DefaultRegisters)
    /\ eu = EuIdle
    /\ ret = NoRet

SetRegister8 ==
    /\ ret.nsteps < MaxCalls
    /\ \E reg \in Registers8, value \in Values8 : cpu' = set_register8(cpu, reg, value)
    /\ ret' = Called(ret.nsteps + 1, "set_register8", 0, cpu.flags)
    /\ UNCHANGED eu

SetRegister16 ==
    /\ ret.nsteps < MaxCalls
    /\ \E reg \in Registers16, value \in Values16 : cpu' = set_register16(cpu, reg, value)
    /\ ret' = Called(ret.nsteps + 1, "set_register16", 0, cpu.flags)
    /\ UNCHANGED eu

DecrementRegister8 ==
    /\ ret.nsteps < MaxCalls
    /\ \E reg \in Registers8 : cpu' = decrement_register8(cpu, reg)
    /\ ret' = Called(ret.nsteps + 1, "decrement_register8", 0, cpu.flags)
    /\ UNCHANGED eu

DecrementRegister16 ==
    /\ ret.nsteps < MaxCalls
    /\ \E reg \in Registers16 : cpu' = decrement_register16(cpu, reg)
    /\ ret' = Called(ret.nsteps + 1, "decrement_register16", 0, cpu.flags)
    /\ UNCHANGED eu

ResetRegisters ==
    /\ ret.nsteps < MaxCalls
    /\ cpu' = reset_registers(cpu)
    /\ ret' = Called(ret.nsteps + 1, "reset", 0, cpu.flags)
    /\ UNCHANGED eu

NextRegs ==
    \/ SetRegister8
    \/ SetRegister16
    \/ DecrementRegister8
    \/ DecrementRegister16
    \/ ResetRegisters

SpecRegs == InitRegs /\ [][NextRegs]_vars

SetFlags ==
    /\ \E flags \in FlagWords :
          /\ cpu' = set_flags(cpu, flags)
          /\ ret' = Called(0, "set_flags", flags, cpu.flags)
    /\ UNCHANGED eu

SetFlag ==
    /\ \E m \in Flags :
          /\ cpu' = set_flag(cpu, m)
          /\ ret' = Called(0, "set_flag", m, cpu.flags)
    /\ UNCHANGED eu

ClearFlag ==
    /\ \E m \in Flags :
          /\ cpu' = clear_flag(cpu, m)
          /\ ret' = Called(0, "clear_flag", m, cpu.flags)
    /\ UNCHANGED eu

SetFlagState ==
    /\ \E m \in Flags, state \in BOOLEAN :
          /\ cpu' = set_flag_state(cpu, m, state)
          /\ ret' = Called(0, "set_flag_state", m, cpu.flags)
    /\ UNCHANGED eu

StoreFlags ==
    /\ \E bits \in FlagWords :
          /\ cpu' = store_flags(cpu, bits)
          /\ ret' = Called(0, "store_flags", bits, cpu.flags)
    /\ UNCHANGED eu

ResetFlags ==
    /\ cpu' = reset_registers(cpu)
    /\ ret' = Called(0, "reset", 0, cpu.flags)
    /\ UNCHANGED eu

NextFlags ==
    \/ SetFlags
    \/ SetFlag
    \/ ClearFlag
    \/ SetFlagState
    \/ StoreFlags
    \/ ResetFlags

SpecFlags == InitRegs /\ [][NextFlags]_vars

(***************************************************************************)
(* Properties of the bus cycle and of the prefetcher, under SpecBus.       *)
(***************************************************************************)
\* a step that is one cycle() call
IsCycle == cpu'.cycle_num = cpu.cycle_num + 1

\* the phases of an active bus cycle follow one another in order
PhaseOrder ==
    cpu.bus_status \in ActiveStatus =>
        /\ cpu.t_cycle \in {"TInit", "T1"} => cpu'.t_cycle = "T2"
        /\ cpu.t_cycle = "T2" => cpu'.t_cycle = "T3"
        /\ cpu.t_cycle = "T3" => cpu'.t_cycle \in {"Tw", "T4"}
        /\ cpu.t_cycle = "Tw" => cpu'.t_cycle \in {"Tw", "T4"}
        /\ cpu.t_cycle \in {"T2", "T3", "Tw"} => cpu'.bus_status = cpu.bus_status

PassiveStaysT1 == cpu.bus_status = "Passive" => cpu'.t_cycle = "T1"

\* C1 as stated: an active bus cycle goes T1, T2, T3, Tw*, T4 in order; on the
\* cycle after T4 the phase is T1 and the bus status is passive; a passive bus
\* stays at T1.
C1_AfterT4Passive ==
    [][IsCycle =>
        /\ PhaseOrder
        /\ PassiveStaysT1
        /\ cpu.t_cycle = "T4" => (cpu'.t_cycle = "T1" /\ cpu'.bus_status = "Passive")]_vars

\* C1: an active bus cycle goes T1, T2, T3, Tw*, T4 in order; on the cycle after
\* T4 the phase is T1, and the bus status is passive unless the prefetcher has
\* started the next code fetch in that same cycle() call, whose T1 it then is; a
\* passive bus stays at T1.
C1_PhaseOrder ==
    [][IsCycle =>
        /\ PhaseOrder
        /\ PassiveStaysT1
        /\ cpu.t_cycle = "T4" =>
              /\ cpu'.t_cycle = "T1"
              /\ \/ cpu'.bus_status = "Passive"
                 \/ /\ cpu'.bus_status = "CodeFetch"
                    /\ cpu'.fetch_state = FsInProgress
                    /\ cpu'.address_bus = cpu'.pc]_vars

\* a bus cycle with a wait state has reached T4, and a fetch has followed a T4 at once
C1_Witness ==
    /\ cpu.bus_status = "CodeFetch"
    /\ cpu.t_cycle = "T1"
    /\ cpu.fetch_state = FsInProgress
    /\ queue_len(cpu) > 0
    /\ cpu.cycle_num > 12

\* the state in which cycle_i takes its prefetch decision
prefetch_point(s, ws) == cycle_transition(cycle_t_state(s, ws))

\* this cycle() call starts a code fetch
fetch_starts(s, ws) ==
    /\ cycle_prefetch(prefetch_point(s, ws)).fetch_state = FsInProgress
    /\ prefetch_point(s, ws).fetch_state # FsInProgress

\* C2: a code fetch is started only where the bus is passive, so it never
\* overwrites the status, address or phase of a bus cycle before the end of its T4.
C2_FetchOnlyWhenPassive ==
    [][\A ws \in 0..MaxWait :
          (cpu' = cycle_i(cpu, ws) /\ fetch_starts(cpu, ws)) =>
              /\ prefetch_point(cpu, ws).bus_status = "Passive"
              /\ (cpu.bus_status = "Passive" \/ cpu.t_cycle = "T4")
              /\ cpu'.bus_status = "CodeFetch"
              /\ cpu'.t_cycle = "T1"
              /\ cpu'.address_bus = cpu'.pc]_vars

\* a fetch has been started right behind a bus cycle of the EU
C2_Witness ==
    /\ cpu.bus_status = "CodeFetch"
    /\ cpu.t_cycle = "T1"
    /\ cpu.fetch_state = FsInProgress
    /\ cpu.bus_segment = "CS"
    /\ cpu.i8288.ale
    /\ cpu.last_queue_op = "Idle"
    /\ eu.rq.status = "MemWrite"
    /\ eu.pos = "idle"

\* C3: the queue never holds more than its capacity (4 on the 8088, 6 on the
\* 8086), and no push at T4 finds the queue without room for the transfer.
C3_QueueBounded ==
    /\ queue_len(cpu) <= cpu.queue.size
    /\ cpu.queue.size = IF cpu.cpu_type = "Intel8088" THEN 4 ELSE 6
    /\ cpu.panic # "queue overrun"
    /\ (cpu.bus_status = "CodeFetch" /\ cpu.t_cycle = "T4") =>
           queue_len(cpu) + FetchWidth(cpu) <= cpu.queue.size

\* the queue is full and a scheduled fetch is held back for want of room
C3_Witness ==
    /\ queue_len(cpu) = cpu.queue.size
    /\ cpu.fetch_state.k = "Scheduled"
    /\ cpu.fetch_state.n > 1
    /\ ~cpu.fetch_suspended
    /\ cpu.bus_status = "Passive"


(***************************************************************************)
(* Properties of step, under Spec.                                         *)
(***************************************************************************)
IF_set(flags) == HasBit(flags, CPU_FLAG_INT_ENABLE)
TF_set(flags) == HasBit(flags, CPU_FLAG_TRAP)

\* the last step ran an instruction to its retirement and returned Ok
Retired == ret.kind = "Ok" /\ ret.executed # "" /\ ~cpu.in_rep /\ cpu.panic = ""

\* the word a push left on the stack, n words below the stack pointer at entry
Pushed(n) ==
    read_u16(cpu.bus, calc_linear_address(ret.entry.ss, (ret.entry.sp + W16 - 2 * n) % W16))

\* C4 as stated: after every retired instruction, when the prefetcher is idle,
\* the program counter is linear(CS, IP) + queue length modulo 2^20.
C4_PcTracksIp ==
    (Retired /\ cpu.fetch_state = FsIdle) =>
        cpu.pc = (calc_linear_address(cpu.cs, cpu.ip) + queue_len(cpu)) % W20

\* C5 as stated: when step enters a hardware interrupt, IF is 1 and the
\* interrupt-inhibit latch is clear at the point of entry.
C5_EntryOnlyWhenEnabled ==
    ret.entered = "hw" =>
        (IF_set(ret.entry.flags) /\ ~ret.entry.interrupt_inhibit)

\* C6 as stated: no hardware interrupt is entered between an instruction that
\* modifies SS and the instruction after it.
C6_NoEntryAfterSsLoad ==
    ~(ret.executed = "MOV_SS" /\ ret.entered = "hw" /\ IF_set(ret.entry.flags))

\* C7: entry into a hardware interrupt for vector v pushes the flags as they
\* were, then CS, then IP (SP goes down by 6), clears IF and TF after the flags
\* are pushed, loads IP from the word at 4*v and CS from the word at 4*v+2, and
\* leaves the queue flushed.
C7_HwInterruptEntry ==
    (ret.entered = "hw" /\ cpu.panic = "") =>
        /\ cpu.sp = (ret.entry.sp + W16 - 6) % W16
        /\ cpu.ss = ret.entry.ss
        /\ Pushed(1) = ret.entry.flags
        /\ Pushed(2) = ret.entry.cs
        /\ Pushed(3) = ret.entry.ip
        /\ cpu.flags = ClearBit(ClearBit(ret.entry.flags, CPU_FLAG_INT_ENABLE), CPU_FLAG_TRAP)
        /\ cpu.ip = read_u16(cpu.bus, 4 * ret.vector)
        /\ cpu.cs = read_u16(cpu.bus, 4 * ret.vector + 2)
        /\ queue_len(cpu) = 0
        /\ cpu.pc = calc_linear_address(cpu.cs, cpu.ip)

\* a hardware interrupt has been entered with IF set, on the second stack
C7_Witness ==
    /\ ret.entered = "hw"
    /\ cpu.panic = ""
    /\ IF_set(ret.entry.flags)
    /\ ret.entry.ss = 80
    /\ ret.vector = 8

\* the first step of a repeated string instruction that finds interrupts
\* enabled and a request pending, with more than one iteration to go
RepStepWithIrq ==
    /\ ret.executed = "REP_MOVSB"
    /\ cpu.panic = ""
    /\ ~ret.pre.in_rep
    /\ ret.pre.cx > 1
    /\ ret.pre.intr
    /\ IF_set(ret.pre.flags)
    /\ ~ret.pre.interrupt_inhibit

\* C8 as stated: that step does one iteration and leaves IP at the REP prefix;
\* the interrupt is entered by the next step.
C8_RepYieldsBeforeEntry ==
    RepStepWithIrq =>
        /\ cpu.cx = ret.pre.cx - 1
        /\ cpu.cs = ret.pre.cs
        /\ cpu.ip = ret.pre.ip
        /\ ret.entered # "hw"

\* C8: that step does exactly one iteration and enters the interrupt itself,
\* with the address of the REP prefix pushed as the return address; no second
\* iteration comes before the entry.
C8_RepEntersInSameStep ==
    RepStepWithIrq =>
        /\ cpu.cx = ret.pre.cx - 1
        /\ ret.entered = "hw"
        /\ ret.entry.cx = ret.pre.cx - 1
        /\ ret.entry.cs = ret.pre.cs
        /\ ret.entry.ip = ret.pre.ip
        /\ Pushed(2) = ret.pre.cs
        /\ Pushed(3) = ret.pre.ip
        /\ ~cpu.in_rep
        /\ cpu.ip = read_u16(cpu.bus, 4 * ret.vector)
        /\ cpu.cs = read_u16(cpu.bus, 4 * ret.vector + 2)

C8_Witness == RepStepWithIrq /\ ret.pre.cx = 2 /\ ret.entered = "hw"

\* C9: when execution raises a divide error, step returns Ok and is_error stays
\* false; the flags, CS and the IP of the faulting instruction are on the stack
\* and CS:IP comes from entry 0 of the interrupt vector table.
C9_DivideError ==
    (ret.entered = "exception" /\ cpu.panic = "") =>
        /\ ret.kind = "Ok"
        /\ ret.result = "Normal"
        /\ ~cpu.is_error
        /\ cpu.sp = (ret.entry.sp + W16 - 6) % W16
        /\ Pushed(1) = ret.entry.flags
        /\ Pushed(2) = ret.pre.cs
        /\ Pushed(3) = ret.pre.ip
        /\ cpu.ip = read_u16(cpu.bus, 0)
        /\ cpu.cs = read_u16(cpu.bus, 2)

\* a divide error has been raised away from the reset vector
C9_Witness ==
    /\ ret.entered = "exception"
    /\ ret.executed = "DIV0"
    /\ cpu.panic = ""
    /\ ret.pre.cs = 4096

\* C10 as stated: after handle_exception IF and TF are clear.
C10_ExceptionClearsIfTf ==
    (ret.entered = "exception" /\ cpu.panic = "") =>
        (~IF_set(cpu.flags) /\ ~TF_set(cpu.flags))


\* the last step returned breakpoint-hit and left the registers, the queue,
\* the program counter and the cycle counter as they were
HitAndUnchanged ==
    /\ ret.kind = "Ok"
    /\ ret.result = "BreakpointHit"
    /\ ret.executed = ""
    /\ cpu.cs = ret.pre.cs /\ cpu.ip = ret.pre.ip
    /\ cpu.ss = ret.pre.ss /\ cpu.sp = ret.pre.sp
    /\ cpu.cx = ret.pre.cx /\ cpu.flags = ret.pre.flags
    /\ cpu.queue = ret.pre.queue /\ cpu.pc = ret.pre.pc
    /\ cpu.cycle_num = ret.pre.cycle_num

\* the last step began at an execute breakpoint it was not told to skip, or
\* began in the breakpoint-hit state
StepAtBreakpoint ==
    /\ ret.kind # "none"
    /\ \/ /\ ~ret.skip_breakpoint
          /\ calc_linear_address(ret.pre.cs, ret.pre.ip) \in ret.pre.bpe
       \/ ret.pre.state = "BreakpointHit"

\* C11 as stated: a step at an execute breakpoint (skip_breakpoint false), and
\* every step taken in the breakpoint-hit state whatever skip_breakpoint is,
\* returns breakpoint-hit and changes nothing.
C11_BreakpointStops == StepAtBreakpoint => HitAndUnchanged

\* C11: the same, for a CPU that is not halted when the step begins.
C11_BreakpointStopsUnlessHalted ==
    (StepAtBreakpoint /\ ~ret.pre.halted) => HitAndUnchanged

\* a step told to skip breakpoints, taken in the breakpoint-hit state
C11_Witness ==
    /\ ret.kind = "Ok"
    /\ ret.pre.state = "BreakpointHit"
    /\ ret.skip_breakpoint
    /\ ~ret.pre.halted
    /\ ret.result = "BreakpointHit"

(***************************************************************************)
(* C12                                                                     *)
(***************************************************************************)
\* C12: whenever step returns an error value, is_error is true and
\* is_running is false afterwards.
C12_ErrorsStopCpu == ret.kind = "Err" => (cpu.is_error /\ ~cpu.is_running)

(***************************************************************************)
(* C13                                                                     *)
(***************************************************************************)
\* the last step began with the CPU halted
HaltedStep == ret.kind # "none" /\ ret.pre.halted

\* when the last step began IF was 1, the interrupt-inhibit latch was clear
\* and the interrupt controller had a request (and so a vector) to give
AdmittedAtStart ==
    IF_set(ret.pre.flags) /\ ~ret.pre.interrupt_inhibit /\ ret.pre.intr

RegistersUnchanged ==
    /\ cpu.cs = ret.pre.cs /\ cpu.ip = ret.pre.ip
    /\ cpu.ss = ret.pre.ss /\ cpu.sp = ret.pre.sp
    /\ cpu.cx = ret.pre.cx /\ cpu.flags = ret.pre.flags

\* C13: a step that begins halted decodes and executes nothing; unless a
\* hardware interrupt is admitted it changes no register and the CPU stays
\* halted, and if one is admitted the step clears halted and enters the
\* interrupt.
C13_HaltedUntilInterrupt ==
    (HaltedStep /\ cpu.panic = "") =>
        /\ ret.executed = ""
        /\ ret.kind = "Ok"
        /\ IF AdmittedAtStart
           THEN /\ ~cpu.halted
                /\ ret.entered = "hw"
                /\ ret.result = "Call"
                /\ cpu.ip = read_u16(cpu.bus, 4 * ret.vector)
                /\ cpu.cs = read_u16(cpu.bus, 4 * ret.vector + 2)
           ELSE /\ cpu.halted
                /\ ret.result = "Normal"
                /\ ret.entered = ""
                /\ RegistersUnchanged

\* a halted CPU has been woken by an interrupt
C13_Witness ==
    /\ HaltedStep
    /\ cpu.panic = ""
    /\ AdmittedAtStart
    /\ ~cpu.halted
    /\ ret.entered = "hw"

\* a halted CPU has been stepped with no request pending, and is still halted
C13_WitnessStays ==
    /\ HaltedStep
    /\ ~AdmittedAtStart
    /\ cpu.halted
    /\ ret.result = "Normal"

(***************************************************************************)
(* C14                                                                     *)
(***************************************************************************)
\* IP as the match on the execution result left it, before any interrupt
\* entered at the end of the step
RetiredIp == IF ret.entered = "hw" THEN ret.entry.ip ELSE cpu.ip

\* C14: when execution returns Okay step sets IP to (IP + size) mod 2^16,
\* and when it returns OkayJump or OkayRep step leaves IP as execution left it.
C14_IpAdvance ==
    /\ ret.exec_result = "Okay" =>
           RetiredIp = (ret.exec_ip + ret.exec_size) % W16
    /\ ret.exec_result \in {"OkayJump", "OkayRep"} => RetiredIp = ret.exec_ip

\* an instruction at offset 0xFFFF has returned Okay and IP has wrapped to 0
C14_Witness ==
    /\ ret.exec_result = "Okay"
    /\ ret.exec_ip = 65535
    /\ RetiredIp = 0

\* a far jump and an unfinished repetition have retired
C14_WitnessJump == ret.exec_result = "OkayJump" /\ ret.exec_ip # ret.pre.ip

C14_WitnessRep == ret.exec_result = "OkayRep" /\ ret.entered = "hw"

(***************************************************************************)
(* C15, C16, C17: the register file and the flag word.                     *)
(***************************************************************************)
\* C15: after any sequence of set_register8, set_register16,
\* decrement_register8/16 and reset calls, each of AX, BX, CX, DX equals
\* (its high half << 8) | its low half.
C15_HalvesAgree ==
    /\ cpu.ax = BitOr(cpu.ah * 256, cpu.al)
    /\ cpu.bx = BitOr(cpu.bh * 256, cpu.bl)
    /\ cpu.cx = BitOr(cpu.ch * 256, cpu.cl)
    /\ cpu.dx = BitOr(cpu.dh * 256, cpu.dl)

\* AL has been decremented from 0 under a word of 0x0100: no borrow from AH
C15_Witness ==
    /\ ret.executed = "decrement_register8"
    /\ cpu.ah = 1
    /\ cpu.al = 255
    /\ cpu.ax = 511

\* DX has been decremented as a word from 0x0100: the borrow reaches DH
C15_WitnessWord ==
    /\ ret.executed = "decrement_register16"
    /\ cpu.dh = 0
    /\ cpu.dl = 255
    /\ cpu.dx = 255

\* C16: in every state reached from reset through set_flags, set_flag,
\* clear_flag, set_flag_state and store_flags, bits 1 and 12-15 of the flag
\* word are set and bits 3 and 5 are clear.
C16_ReservedBits ==
    /\ BitAnd(cpu.flags, CPU_FLAGS_RESERVED_ON) = CPU_FLAGS_RESERVED_ON
    /\ BitAnd(cpu.flags, BitNot(CPU_FLAGS_RESERVED_OFF)) = 0

\* set_flags has been called with every bit set
C16_Witness ==
    /\ ret.executed = "set_flags"
    /\ ret.vector = 65535
    /\ cpu.flags = 65535 - CPU_FLAG_RESERVED3 - CPU_FLAG_RESERVED5

ArithmeticFlags ==
    {CPU_FLAG_CARRY, CPU_FLAG_PARITY, CPU_FLAG_AUX_CARRY, CPU_FLAG_ZERO, CPU_FLAG_SIGN}

\* C17: store_flags(bits) sets CF, PF, AF, ZF and SF to the bits of its
\* argument and leaves every other bit of the flag word as it was.
C17_StoreFlagsFrame ==
    ret.executed = "store_flags" =>
        \A n \in 0..15 :
            HasBit(cpu.flags, 2^n) =
                IF 2^n \in ArithmeticFlags THEN HasBit(ret.vector, 2^n)
                ELSE HasBit(ret.pre.flags, 2^n)

\* store_flags has been called with every bit set on a flag word whose
\* IF, DF and arithmetic flags were clear
C17_Witness ==
    /\ ret.executed = "store_flags"
    /\ ret.vector = 65535
    /\ ret.pre.flags = CPU_FLAGS_RESERVED_ON
    /\ cpu.flags = CPU_FLAGS_RESERVED_ON + 213

(***************************************************************************)
(* C18, C19, C20: reset.                                                   *)
(***************************************************************************)
DefaultVector == <<65535, 0>>

\* reset has just returned
JustReset == ret.executed = "reset" /\ ret.nsteps = 0

\* the first code fetch after the reset is in its T1
FirstFetchT1 ==
    /\ ret.executed = "reset"
    /\ cpu.bus_status = "CodeFetch"
    /\ cpu.t_cycle = "T1"
    /\ cpu.pc = calc_linear_address(ret.call[1], ret.call[2])
    /\ queue_len(cpu) = 0

\* the first code fetch after the reset has put its bytes into the queue
FirstFetchDone ==
    /\ ret.executed = "reset"
    /\ queue_len(cpu) > 0
    /\ cpu.pc = (calc_linear_address(ret.call[1], ret.call[2]) + queue_len(cpu)) % W20

\* C18: after reset with the default vector CS = 0xFFFF, IP = 0, the flags
\* are 0xF002, the queue is empty and the program counter is 0xFFFF0, and the
\* first byte fetched comes from linear address 0xFFFF0.
C18_ResetState ==
    (ret.executed = "reset" /\ ret.call = DefaultVector) =>
        /\ cpu.cs = 65535
        /\ cpu.ip = 0
        /\ cpu.flags = CPU_FLAGS_RESERVED_ON
        /\ JustReset => (queue_len(cpu) = 0 /\ cpu.pc = 1048560)
        /\ FirstFetchT1 => cpu.address_bus = 1048560
        /\ FirstFetchDone => cpu.queue.q[1] = read_u8(cpu.bus, 1048560)

\* reset with the default vector of a CPU whose queue held bytes, and the
\* first fetch after it has ended
C18_Witness ==
    /\ ret.executed = "reset"
    /\ ret.call = DefaultVector
    /\ ret.pre.queue.q # <<>>
    /\ FirstFetchDone
    /\ cpu.cs = 65535

\* C19 as stated: exactly 8 cycles elapse between reset and the first T1 of
\* a code-fetch bus cycle (cycle_num is 1 when reset begins and counts every
\* cycle).
C19_EightCycles == FirstFetchT1 => cpu.cycle_num - 1 = 8

\* C19, what the model has: the sixth cycle of reset leaves the bus in the T1
\* of the first code fetch.
C19_SixCycles == FirstFetchT1 => (JustReset /\ cpu.cycle_num - 1 = 6)

C19_Witness == FirstFetchT1 /\ ret.call = DefaultVector /\ ret.pre.queue.q # <<>>

\* the CPU as constructed with the type and the options of c
Fresh(c) ==
    set_option_dram(new(c.cpu_type), c.dram_refresh_simulation,
                    c.dram_refresh_cycle_target)

\* C20: the state reset leaves does not depend on the state before it: it is
\* the state reset leaves on a CPU just constructed with the same type,
\* options and breakpoint list.
C20_ResetForgets == JustReset => cpu = reset(Fresh(cpu), ret.call)

\* C20, for the counters the claim names
C20_CountersForgotten ==
    JustReset =>
        /\ cpu.wait_states = reset(Fresh(cpu), ret.call).wait_states
        /\ cpu.dram_refresh_cycles = reset(Fresh(cpu), ret.call).dram_refresh_cycles
        /\ cpu.dram_transfer_cycles = reset(Fresh(cpu), ret.call).dram_transfer_cycles
        /\ cpu.dram_refresh_has_bus = reset(Fresh(cpu), ret.call).dram_refresh_has_bus

(***************************************************************************)
(* C21: the DRAM-refresh simulation.                                       *)
(***************************************************************************)
\* one cycle of the refresh clock: the counter goes up by one, or back to 0
\* on reaching the period, and then the DMA controller is granted the bus;
\* a bus that is granted is held for exactly DRAM_TRANSFER_CYCLES cycles and
\* a bus that is released stays released until the next grant
RefreshCycle ==
    LET C == cpu.dram_refresh_cycle_target
        reaches == cpu.dram_refresh_cycles + 1 = C
    IN  /\ cpu'.dram_refresh_cycles = IF reaches THEN 0 ELSE cpu.dram_refresh_cycles + 1
        /\ reaches => (cpu'.dram_refresh_has_bus /\ ~cpu.dram_refresh_has_bus)
        /\ (~reaches /\ ~cpu.dram_refresh_has_bus) => ~cpu'.dram_refresh_has_bus
        /\ (~reaches /\ cpu.dram_refresh_has_bus) =>
               (cpu'.dram_refresh_has_bus <=> ret.cycles < DRAM_TRANSFER_CYCLES)

\* C21 as stated: with the simulation enabled and any period C, every cycle
\* is a cycle of the refresh clock as described.
C21_RefreshAnyPeriod ==
    [][(cpu'.cycle_num = cpu.cycle_num + 1 /\ cpu.dram_refresh_simulation)
           => RefreshCycle]_vars

\* C21: the same for a period longer than the DRAM_TRANSFER_CYCLES cycles the
\* bus is held.
C21_RefreshLongPeriod ==
    [][(cpu'.cycle_num = cpu.cycle_num + 1 /\ cpu.dram_refresh_simulation
            /\ cpu.dram_refresh_cycle_target > DRAM_TRANSFER_CYCLES)
           => RefreshCycle]_vars

\* with a period of 5 the bus has been granted twice, and the second time it
\* has been held for four cycles and released
C21_Witness ==
    /\ cpu.dram_refresh_simulation
    /\ cpu.dram_refresh_cycle_target = 5
    /\ ret.nsteps = 2
    /\ ~cpu.dram_refresh_has_bus
    /\ cpu.dram_refresh_cycles = DRAM_TRANSFER_CYCLES

(***************************************************************************)
(* C22, C23: the EU's priority on the bus and the suspend-fetch hold,      *)
(* under SpecBus.                                                          *)
(***************************************************************************)
\* the EU asks for the bus
EuAsks == eu.pos = "idle" /\ eu'.pos = "bus_wait"

\* the EU's bus cycle begins
EuBegins == eu.pos = "bus_wait" /\ eu'.pos = "bus_xfer"

\* the prefetcher begins a code-fetch bus cycle
FetchBegins == cpu'.fetch_state = FsInProgress /\ cpu.fetch_state # FsInProgress

\* the last T3 or Tw of a bus cycle of the EU has run
EuCycleEnds ==
    /\ cpu.bus_status \in ActiveStatus \ {"CodeFetch"}
    /\ cpu.t_cycle \in {"T3", "Tw"}
    /\ cpu'.t_cycle = "T4"

\* C22: a request of the EU turns a fetch that is scheduled(n) into
\* aborted(n) and leaves a bus cycle in progress alone; while the EU waits no
\* code fetch begins, and the EU's cycle begins only on a passive bus, so
\* after the T4 of a fetch in flight; when the EU's cycle ends a new fetch is
\* scheduled if the queue has room and fetching is not suspended.
C22_EuPriority ==
    [][/\ (EuAsks /\ cpu.fetch_state.k = "Scheduled") =>
              cpu'.fetch_state = FsAborted(cpu.fetch_state.n)
       /\ EuAsks => (cpu'.bus_status = cpu.bus_status /\ cpu'.t_cycle = cpu.t_cycle)
       /\ eu.pos = "bus_wait" => ~FetchBegins
       /\ EuBegins => (cpu.bus_status = "Passive" /\ cpu'.bus_status = eu.rq.status)
       /\ (EuCycleEnds /\ biu_queue_has_room(cpu') /\ ~cpu'.fetch_suspended) =>
              cpu'.fetch_state.k = "Scheduled"]_vars

\* the EU waits for the bus behind a code fetch in flight, and the fetch that
\* was scheduled to follow it has been aborted
C22_Witness ==
    /\ eu.pos = "bus_wait"
    /\ cpu.fetch_state.k = "Aborted"
    /\ cpu.bus_status = "CodeFetch"
    /\ cpu.t_cycle \in {"T3", "Tw", "T4"}

\* a bus cycle of the EU has reached T4 with the next fetch scheduled
C22_WitnessRescheduled ==
    /\ cpu.bus_status = "MemRead"
    /\ cpu.t_cycle = "T4"
    /\ cpu.fetch_state.k = "Scheduled"

\* one cycle() call has run
CycleRuns == cpu'.cycle_num = cpu.cycle_num + 1

\* the T-states a bus cycle in t may be in one cycle later
NextTCycles(t) ==
    CASE t = "T1" -> {"T2"}
      [] t = "T2" -> {"T3"}
      [] t \in {"T3", "Tw"} -> {"Tw", "T4"}
      [] OTHER -> {}

\* C23: while the suspend-fetch hold is set no code-fetch bus cycle begins;
\* a code fetch that is on the bus when the hold is set, or while it is set,
\* is not cancelled: it goes on through its T-states, and its T4 pushes the
\* fetched bytes into the queue and advances the program counter.
C23_SuspendHolds ==
    [][/\ cpu.fetch_suspended => ~FetchBegins
       /\ (cpu'.fetch_suspended /\ cpu.bus_status = "CodeFetch" /\ ~CycleRuns) =>
              (cpu'.bus_status = "CodeFetch" /\ cpu'.t_cycle = cpu.t_cycle)
       /\ (cpu.fetch_suspended /\ cpu.bus_status = "CodeFetch" /\ CycleRuns) =>
              IF cpu.t_cycle = "T4"
              THEN /\ queue_len(cpu') = queue_len(cpu) + FetchWidth(cpu)
                   /\ cpu'.pc = (cpu.pc + FetchWidth(cpu)) % W20
                   /\ cpu'.panic = ""
              ELSE /\ cpu'.bus_status = "CodeFetch"
                   /\ cpu'.t_cycle \in NextTCycles(cpu.t_cycle)
                   /\ cpu'.queue = cpu.queue]_vars

\* the hold is set, a code fetch begun before it is in T4, about to push
C23_Witness ==
    /\ cpu.fetch_suspended
    /\ cpu.bus_status = "CodeFetch"
    /\ cpu.t_cycle = "T4"

\* the hold is set over a fetch that is scheduled, due, and has room
C23_WitnessHeld ==
    /\ cpu.fetch_suspended
    /\ cpu.fetch_state.k = "Scheduled"
    /\ cpu.fetch_state.n >= FETCH_DELAY
    /\ biu_queue_has_room(cpu)
    /\ cpu.bus_status = "Passive"

(***************************************************************************)
(* C24: the cycle records handed to the validator, under Spec.             *)
(***************************************************************************)
\* the cycle() calls that made the records
RecordedCycles(records) == [i \in 1..Len(records) |-> records[i].cycle_num]

\* the cycles from a up to, not including, b
CyclesFromTo(a, b) == [i \in 1..(b - a) |-> a + i - 1]

\* C24: the records validate is called with are the records of the cycles of
\* the validated instruction, in order: every cycle from the beginning of the
\* step that fetched it to the end of its finalize, and no other cycle.
C24_ValidatorCycles ==
    ret.validated =>
        RecordedCycles(ret.cycle_states) = CyclesFromTo(ret.began, ret.validated_at)

\* an instruction is validated in the step after one that ended by entering
\* a hardware interrupt
C24_Witness ==
    /\ ret.validated
    /\ ret.prev_entered = "hw"
    /\ Len(ret.cycle_states) > 0

\* an instruction is validated in the step after an iteration of a REP
\* instruction that ended by entering a hardware interrupt
C24_WitnessRepEntry ==
    /\ ret.validated
    /\ ret.prev_entered = "hw"
    /\ ret.pre.kind = "REP_MOVSB"

\* a REP instruction is validated at its last iteration, steps after its first
C24_WitnessRep ==
    /\ ret.validated
    /\ ret.pre.in_rep
    /\ ret.began < ret.pre.cycle_num

(***************************************************************************)
(* C25: the instruction history, under SpecValidator.                      *)
(***************************************************************************)
\* the last n elements of a sequence, all of it if it is shorter
LastOf(seq, n) ==
    IF Len(seq) <= n THEN seq ELSE SubSeq(seq, Len(seq) - n + 1, Len(seq))

\* C25: with the instruction history enabled the history buffer holds at most
\* CPU_HISTORY_LEN entries, and they are the most recently retired
\* instructions, one entry each, in the order they retired.
C25_HistoryIsRetired ==
    cpu.instruction_history_on =>
        /\ Len(cpu.instruction_history) <= CPU_HISTORY_LEN
        /\ cpu.instruction_history = LastOf(ret.retired, CPU_HISTORY_LEN)

(***************************************************************************)
(* The call-stack shadow.  SpecCallStack: push_call_stack and              *)
(* rewind_call_stack in any order on a constructed CPU.  ret tells the     *)
(* call made: its name in executed, the address rewound to in vector, the  *)
(* depth of the shadow before the call in nsteps.                          *)
(***************************************************************************)
CPU_CALL_STACK_LEN == 16

\* deepest shadow explored
MaxCallDepth == 17

\* depth up to which every entry of CallEntries is pushed; deeper nests are
\* nests of the interrupt
MaxVariedDepth == 3

\* the return address of an entry, whatever its variant
return_addr(call) == calc_linear_address(call.ret_cs, call.ret_ip)

\* the indices of the entries that return to addr
Returning(call_stack, addr) ==
    {i \in 1..Len(call_stack) : return_addr(call_stack[i]) = addr}

\* the index position() finds: the first of a non-empty set of indices
Earliest(found) == CHOOSE i \in found : \A j \in found : i <= j

\* the entries from found_idx on leave the shadow, and the flag map loses the
\* return bit at the return address of each
drain_call_stack(s, found_idx) ==
    [s EXCEPT !.call_stack = SubSeq(@, 1, found_idx - 1),
              !.bus.ret = @ \ {return_addr(s.call_stack[i]) :
                                   i \in found_idx..Len(s.call_stack)}]

\* rewind_call_stack rewinding to the latest entry that returns to addr
rewind_call_stack_to_latest(s, addr) ==
    IF Returning(s.call_stack, addr) = {} THEN s
    ELSE drain_call_stack(s, CHOOSE i \in Returning(s.call_stack, addr) :
                                 \A j \in Returning(s.call_stack, addr) : i >= j)

rewind_call_stack(s, addr) ==
    IF Returning(s.call_stack, addr) = {} THEN s
    ELSE drain_call_stack(s, Earliest(Returning(s.call_stack, addr)))

\* a near call and a far call that return to the same linear address by
\* different segment:offset pairs, and a hardware interrupt
CallEntries ==
    {CallStackEntry("Call", 0, 0, 16, 0, 256),
     CallStackEntry("CallF", 0, 1, 0, 4096, 0),
     CallStackEntry("Hardware", 8, 0, 32, 61440, 0)}

\* the addresses control flow arrives at: the two return addresses, and one
\* that nothing returns to
RewindAddresses == {16, 32, 48}

InitCallStack ==
    /\ cpu \in {new(t) : t \in CpuTypes}
    /\ eu = EuIdle
    /\ ret = NoRet

PushCallStack ==
    /\ Len(cpu.call_stack) < MaxCallDepth
    /\ \E entry \in CallEntries :
          /\ Len(cpu.call_stack) >= MaxVariedDepth => entry.itype = "Hardware"
          /\ cpu' = push_call_stack(cpu, entry, entry.ret_cs, entry.ret_ip)
    /\ ret' = Called(Len(cpu.call_stack), "push_call_stack", 0, 0)
    /\ UNCHANGED eu

RewindCallStack ==
    /\ \E addr \in RewindAddresses :
          /\ cpu' = rewind_call_stack(cpu, addr)
          /\ ret' = Called(Len(cpu.call_stack), "rewind_call_stack", addr, 0)
    /\ UNCHANGED eu

NextCallStack == PushCallStack \/ RewindCallStack

SpecCallStack == InitCallStack /\ [][NextCallStack]_vars

\* C26: the shadow never holds more than CPU_CALL_STACK_LEN entries.
C26_ShadowBounded == Len(cpu.call_stack) <= CPU_CALL_STACK_LEN

(***************************************************************************)
(* C27: what rewind_call_stack removes.                                    *)
(***************************************************************************)
\* rewind_call_stack(addr) took the shadow from `before` to `after`
Rewound(addr, before, after) ==
    LET found == Returning(before.call_stack, addr)
    IN  IF found = {}
        THEN after = before
        ELSE \E k \in found :
                /\ \A j \in found : k <= j
                /\ Len(after.call_stack) = k - 1
                /\ \A i \in 1..(k - 1) : after.call_stack[i] = before.call_stack[i]
                /\ \A i \in k..Len(before.call_stack) :
                       return_addr(before.call_stack[i]) \notin after.bus.ret
                /\ after.bus.ret \subseteq before.bus.ret

\* C27: rewind_call_stack(addr) removes the earliest entry that returns to
\* addr and every entry after it, clears the return bit at the return address
\* of each entry removed and keeps the entries before it as they were; when
\* no entry returns to addr nothing changes.
C27_RewindToEarliest ==
    [][\A addr \in RewindAddresses :
           (ret'.executed = "rewind_call_stack" /\ ret'.vector = addr) =>
               Rewound(addr, cpu, cpu')]_vars

\* a rewind has removed two entries or more and left one or more
C27_Witness ==
    /\ ret.executed = "rewind_call_stack"
    /\ Len(cpu.call_stack) >= 1
    /\ ret.nsteps >= Len(cpu.call_stack) + 2

\* a rewind to an address nothing returns to, on a shadow that is not empty
C27_WitnessNoMatch ==
    /\ ret.executed = "rewind_call_stack"
    /\ ret.vector = 48
    /\ Len(cpu.call_stack) >= 2

(***************************************************************************)
(* The shifts and rotates of bitwise.rs and the parity table.  The ALU     *)
(* primitives (alu_rol, alu_shl_af, ...) work one bit per iteration, w is  *)
(* the operand's width in bits.                                            *)
(***************************************************************************)
\* largest shift count explored
MaxShiftCount == 3

\* the high-order bit of a w-bit value
ho_bit(x, w) == x \div 2^(w - 1) = 1

\* the bit below the high-order bit
next_ho_bit(x, w) == (x \div 2^(w - 2)) % 2 = 1

RECURSIVE rotate_left(_, _, _)
rotate_left(x, count, w) ==
    IF count = 0 THEN x
    ELSE rotate_left(((x * 2) % 2^w) + (x \div 2^(w - 1)), count - 1, w)

RECURSIVE rotate_right(_, _, _)
rotate_right(x, count, w) ==
    IF count = 0 THEN x
    ELSE rotate_right((x \div 2) + (x % 2) * 2^(w - 1), count - 1, w)

\* <<result, carry, overflow>>
alu_rol(x, count, w) ==
    LET r == rotate_left(x, count, w)
    IN  <<r, r % 2 = 1, ho_bit(r, w) # (r % 2 = 1)>>

alu_ror(x, count, w) ==
    LET r == rotate_right(x, count, w)
    IN  <<r, ho_bit(r, w), ho_bit(r, w) # next_ho_bit(r, w)>>

\* <<value, carry>> after count rotations through the carry
RECURSIVE rcl_loop(_, _, _, _)
rcl_loop(x, carry, count, w) ==
    IF count = 0 THEN <<x, carry>>
    ELSE rcl_loop(((x * 2) % 2^w) + (IF carry THEN 1 ELSE 0), ho_bit(x, w), count - 1, w)

RECURSIVE rcr_loop(_, _, _, _)
rcr_loop(x, carry, count, w) ==
    IF count = 0 THEN <<x, carry>>
    ELSE rcr_loop((x \div 2) + (IF carry THEN 2^(w - 1) ELSE 0), x % 2 = 1, count - 1, w)

alu_rcl(x, count, carry, w) ==
    LET r == rcl_loop(x, carry, count, w)
    IN  <<r[1], r[2], ho_bit(r[1], w) # r[2]>>

alu_rcr(x, count, carry, w) ==
    LET r == rcr_loop(x, carry, count, w)
    IN  <<r[1], r[2], ho_bit(r[1], w) # next_ho_bit(r[1], w)>>

\* <<value, carry, aux_carry>> after count shifts to the left
RECURSIVE shl_loop(_, _, _, _, _)
shl_loop(x, carry, aux_carry, count, w) ==
    IF count = 0 THEN <<x, carry, aux_carry>>
    ELSE shl_loop((x * 2) % 2^w, ho_bit(x, w), (x \div 8) % 2 = 1, count - 1, w)

\* <<result, carry, overflow, aux_carry>>
alu_shl_af(x, count, w) ==
    LET r == shl_loop(x, FALSE, FALSE, count, w)
    IN  <<r[1], r[2], ho_bit(r[1], w) # r[2], r[3]>>

\* <<result, carry>>
RECURSIVE alu_shr(_, _, _)
alu_shr(x, carry, count) ==
    IF count = 0 THEN <<x, carry>> ELSE alu_shr(x \div 2, x % 2 = 1, count - 1)

RECURSIVE alu_sar(_, _, _, _)
alu_sar(x, carry, count, w) ==
    IF count = 0 THEN <<x, carry>>
    ELSE alu_sar((x \div 2) + (IF ho_bit(x, w) THEN 2^(w - 1) ELSE 0), x % 2 = 1, count - 1, w)

\* count_ones counting the low seven bits only
count_ones_low_bits(x) ==
    Cardinality({k \in 0..6 : (x \div 2^k) % 2 = 1})

RECURSIVE count_ones(_)
count_ones(x) == IF x = 0 THEN 0 ELSE (x % 2) + count_ones(x \div 2)

PARITY_TABLE == [index \in 0..255 |-> count_ones(index) % 2 = 0]

set_szp_flags_from_result(s, result, w) ==
    set_flag_state(
        set_flag_state(
            set_flag_state(s, CPU_FLAG_SIGN, ho_bit(result, w)),
            CPU_FLAG_ZERO, result = 0),
        CPU_FLAG_PARITY, PARITY_TABLE[result % W8])

\* carry and overflow as a rotate leaves them; r is <<result, carry, overflow>>
rotate_flags(s, r) ==
    [s |-> set_flag_state(set_flag_state(s, CPU_FLAG_OVERFLOW, r[3]), CPU_FLAG_CARRY, r[2]),
     result |-> r[1]]

\* "SETMO sets all bits in result"
set_minus_one(s, w) ==
    [s |-> set_szp_flags_from_result(
               clear_flag(clear_flag(clear_flag(s, CPU_FLAG_CARRY), CPU_FLAG_AUX_CARRY),
                          CPU_FLAG_OVERFLOW),
               2^w - 1, w),
     result |-> 2^w - 1]

ShiftOpcodes == {"ROL", "ROR", "RCL", "RCR", "SETMO", "SETMOC", "SHL", "SHR", "SAR"}

\* the match on the opcode, for a count that is not looked at again
bitshift_match(s, opcode, operand1, operand2, w) ==
    CASE opcode = "ROL" -> rotate_flags(s, alu_rol(operand1, operand2, w))
      [] opcode = "ROR" -> rotate_flags(s, alu_ror(operand1, operand2, w))
      [] opcode = "RCL" ->
            rotate_flags(s, alu_rcl(operand1, operand2, get_flag(s, CPU_FLAG_CARRY), w))
      [] opcode = "RCR" ->
            rotate_flags(s, alu_rcr(operand1, operand2, get_flag(s, CPU_FLAG_CARRY), w))
      [] opcode = "SETMO" -> set_minus_one(s, w)
      [] opcode = "SETMOC" ->
            IF get_register8(s, "CL") # 0 THEN set_minus_one(s, w)
            ELSE [s |-> s, result |-> operand1]
      [] opcode = "SHL" ->
            LET r == alu_shl_af(operand1, operand2, w)
            IN  [s |-> set_szp_flags_from_result(
                           set_flag_state(
                               set_flag_state(set_flag_state(s, CPU_FLAG_CARRY, r[2]),
                                              CPU_FLAG_AUX_CARRY, r[4]),
                               CPU_FLAG_OVERFLOW, r[3]),
                           r[1], w),
                 result |-> r[1]]
      [] opcode = "SHR" ->
            LET r == alu_shr(operand1, FALSE, operand2)
            IN  [s |-> set_szp_flags_from_result(
                           clear_flag(
                               set_flag_state(set_flag_state(s, CPU_FLAG_CARRY, r[2]),
                                              CPU_FLAG_OVERFLOW,
                                              operand2 = 1 /\ ho_bit(operand1, w)),
                               CPU_FLAG_AUX_CARRY),
                           r[1], w),
                 result |-> r[1]]
      [] opcode = "SAR" ->
            LET r == alu_sar(operand1, FALSE, operand2, w)
            IN  [s |-> set_szp_flags_from_result(
                           clear_flag(
                               clear_flag(set_flag_state(s, CPU_FLAG_CARRY, r[2]),
                                          CPU_FLAG_OVERFLOW),
                               CPU_FLAG_AUX_CARRY),
                           r[1], w),
                 result |-> r[1]]

\* bitshift_op8 without the return on a count of 0
bitshift_op8_always_shifts(s, opcode, operand1, operand2) ==
    bitshift_match(s, opcode, operand1, operand2, 8)

\* "Flags are not changed if shift amount is 0"
bitshift_op8(s, opcode, operand1, operand2) ==
    IF operand2 = 0 THEN [s |-> s, result |-> operand1]
    ELSE bitshift_match(s, opcode, operand1, operand2, 8)

bitshift_op16(s, opcode, operand1, operand2) ==
    IF operand2 = 0 THEN [s |-> s, result |-> operand1]
    ELSE bitshift_match(s, opcode, operand1, operand2, 16)

(***************************************************************************)
(* SpecAlu: shifts and rotates in any order.  ret tells the call made: its *)
(* name in executed, its arguments and its result in call, the flags       *)
(* before it in pre.flags.                                                 *)
(***************************************************************************)
ShiftValues8 == {0, 1, 128, 255}

ShiftValues16 == {0, 4660, 32768, 65535}

\* what CL holds: SETMOC looks at it
CountRegisters == {0, 2}

AluCalled(op, args, before) ==
    [NoRet EXCEPT !.executed = op, !.call = args, !.pre.flags = before]

InitAlu ==
    /\ cpu \in {set_register8(reset_registers(DefaultRegisters), "CL", v) :
                    v \in CountRegisters}
    /\ eu = EuIdle
    /\ ret = NoRet

BitshiftOp8 ==
    /\ \E opcode \in ShiftOpcodes, operand1 \in ShiftValues8, operand2 \in 0..MaxShiftCount :
          \E r \in {bitshift_op8(cpu, opcode, operand1, operand2)} :
              /\ cpu' = r.s
              /\ ret' = AluCalled("bitshift_op8", <<opcode, operand1, operand2, r.result>>,
                                  cpu.flags)
    /\ UNCHANGED eu

BitshiftOp16 ==
    /\ \E opcode \in ShiftOpcodes, operand1 \in ShiftValues16, operand2 \in 0..MaxShiftCount :
          \E r \in {bitshift_op16(cpu, opcode, operand1, operand2)} :
              /\ cpu' = r.s
              /\ ret' = AluCalled("bitshift_op16", <<opcode, operand1, operand2, r.result>>,
                                  cpu.flags)
    /\ UNCHANGED eu

ParityLookup ==
    /\ \E b \in 0..(W8 - 1) :
          ret' = AluCalled("PARITY_TABLE", <<b, PARITY_TABLE[b]>>, cpu.flags)
    /\ UNCHANGED <<cpu, eu>>

NextAlu == BitshiftOp8 \/ BitshiftOp16

SpecAlu == InitAlu /\ [][NextAlu]_vars

\* SpecParity: lookups in the parity table
NextParity == ParityLookup

SpecParity == InitAlu /\ [][NextParity]_vars

(***************************************************************************)
(* C28, C29.                                                               *)
(***************************************************************************)
\* C28: a shift or rotate of either width by a count of 0 returns its operand
\* as it was and changes no flag, whatever the opcode.
C28_ZeroCountFrame ==
    (ret.executed \in {"bitshift_op8", "bitshift_op16"} /\ ret.call[3] = 0) =>
        /\ ret.call[4] = ret.call[2]
        /\ cpu.flags = ret.pre.flags

\* SHL of 0 by 0 with the carry set and the zero flag clear: a shift by one
\* would have cleared the one and set the other
C28_Witness ==
    /\ ret.executed = "bitshift_op8"
    /\ ret.call = <<"SHL", 0, 0, 0>>
    /\ get_flag(cpu, CPU_FLAG_CARRY)
    /\ ~get_flag(cpu, CPU_FLAG_ZERO)

\* the same for a 16-bit SETMO
C28_WitnessWord ==
    /\ ret.executed = "bitshift_op16"
    /\ ret.call = <<"SETMO", 4660, 0, 4660>>
    /\ get_flag(cpu, CPU_FLAG_CARRY)

\* b has an even number of 1 bits
EvenOnes(b) ==
    \E n \in 0..4 : Cardinality({k \in 0..7 : (b \div 2^k) % 2 = 1}) = 2 * n

\* C29: the parity table holds true at b exactly when b has an even number
\* of 1 bits.
C29_ParityTable ==
    ret.executed = "PARITY_TABLE" => (ret.call[2] <=> EvenOnes(ret.call[1]))

\* the lookups of 255 (eight 1 bits) and of 128 (one)
C29_Witness ==
    /\ ret.executed = "PARITY_TABLE"
    /\ ret.call = <<255, TRUE>>

C29_WitnessOdd ==
    /\ ret.executed = "PARITY_TABLE"
    /\ ret.call = <<128, FALSE>>

(***************************************************************************)
(* C30: the command strobes and ALE, under SpecBus.  The lines of a        *)
(* T-state are the lines as the cycle that operates the T-state leaves     *)
(* them, before the transition to the next T-state: what the record of     *)
(* that cycle shows.                                                       *)
(***************************************************************************)
LinesOn == cycle_t_state(cpu, 0).i8288

\* the T-state the next cycle operates
TStateOn == IF cpu.t_cycle = "TInit" THEN "T1" ELSE cpu.t_cycle

\* the read command and the advanced write command are asserted from T2 on,
\* not on T1
EarlyCommands ==
    LET on == TStateOn # "T1" /\ TStateOn # "T4"
    IN  /\ LinesOn.mrdc = (on /\ cpu.bus_status \in {"CodeFetch", "MemRead"})
        /\ LinesOn.iorc = (on /\ cpu.bus_status = "IORead")
        /\ LinesOn.amwc = (on /\ cpu.bus_status = "MemWrite")
        /\ LinesOn.aiowc = (on /\ cpu.bus_status = "IOWrite")

\* the memory write command is asserted from T3 on, not on T1 or T2
LateMemoryWrite ==
    LinesOn.mwtc = (TStateOn \in {"T3", "Tw"} /\ cpu.bus_status = "MemWrite")

\* the IO write command is asserted from T3 on, not on T1 or T2
LateIoWrite ==
    LinesOn.iowc = (TStateOn \in {"T3", "Tw"} /\ cpu.bus_status = "IOWrite")

\* ALE is high on T1 and low from T2 on
AleOnT1 == LinesOn.ale = (TStateOn = "T1")

\* C30: in every bus cycle mrdc or iorc (reads) and amwc or aiowc (writes)
\* are first asserted on T2, mwtc or iowc (writes) on T3, and ALE is high on
\* T1 and low from T2 on.
C30_Strobes ==
    cpu.bus_status \in ActiveStatus =>
        (EarlyCommands /\ LateMemoryWrite /\ LateIoWrite /\ AleOnT1)

\* C30 without the IO write command
C30_StrobesButIowc ==
    cpu.bus_status \in ActiveStatus => (EarlyCommands /\ LateMemoryWrite /\ AleOnT1)

\* the IO write command is never asserted
C30_IowcNeverAsserted == ~cpu.i8288.iowc /\ ~LinesOn.iowc

\* an IO write is in T3, a memory write in Tw
C30_WitnessIoWrite == cpu.bus_status = "IOWrite" /\ cpu.t_cycle = "T3"

C30_WitnessMemWrite ==
    cpu.bus_status = "MemWrite" /\ cpu.t_cycle = "Tw" /\ cpu.i8288.mwtc

(***************************************************************************)
(* SpecFetch: the cycles and the EU requests of SpecBus, on a CPU reset to *)
(* the last bytes of the address space, so that the program counter runs   *)
(* over the end of the 20-bit address range.                               *)
(***************************************************************************)
\* the vectors of the reset: linear addresses FFFFE and FFFFF
TopVectors == {<<65535, 14>>, <<65535, 15>>}

InitFetch ==
    /\ cpu \in {reset(new(t), v) : t \in CpuTypes, v \in TopVectors}
    /\ eu = EuIdle
    /\ ret = NoRet

SpecFetch == InitFetch /\ [][NextBus]_vars

(***************************************************************************)
(* C31: the program counter and the T4 of a bus cycle, under SpecFetch.    *)
(***************************************************************************)
\* the bytes a bus cycle of this size transfers
TransferWidth(s) == IF s.transfer_size = "Byte" THEN 1 ELSE 2

\* the cycle that is about to run is the T4 of a code fetch
FetchT4 == cpu.bus_status = "CodeFetch" /\ cpu.t_cycle = "T4"

\* C31: a cycle changes the program counter only if it is the T4 of a
\* code-fetch bus cycle; that cycle makes it (pc + transfer width) mod 2^20,
\* width 1 for a byte fetch and 2 for a word fetch, and appends exactly that
\* many bytes to the queue; the T4 of a bus cycle of any other status changes
\* neither the program counter nor the queue.
C31_PcAdvance ==
    [][IsCycle =>
         /\ FetchT4 =>
               /\ cpu'.pc = (cpu.pc + TransferWidth(cpu)) % W20
               /\ Len(cpu'.queue.q) = Len(cpu.queue.q) + TransferWidth(cpu)
               /\ SubSeq(cpu'.queue.q, 1, Len(cpu.queue.q)) = cpu.queue.q
               /\ cpu'.panic = ""
               /\ TransferWidth(cpu) = FetchWidth(cpu)
         /\ ~FetchT4 => cpu'.pc = cpu.pc
         /\ (cpu.t_cycle = "T4" /\ ~FetchT4) => cpu'.queue = cpu.queue]_vars

\* a fetch at the top of the address space has ended: the program counter has
\* gone round to the bottom, the fetched bytes are in the queue
C31_Witness ==
    /\ cpu.pc \in {0, 1}
    /\ queue_len(cpu) > 0
    /\ cpu.bus_status = "Passive"

\* the T4 of a bus cycle of the EU
C31_WitnessOther ==
    /\ cpu.bus_status \in {"MemRead", "MemWrite", "IORead", "IOWrite"}
    /\ cpu.t_cycle = "T4"
    /\ queue_len(cpu) > 0

(***************************************************************************)
(* SpecFinalize: the cycles and the EU requests of SpecBus, and finalize   *)
(* called wherever an instruction may end: the EU is idle and fetching is  *)
(* not suspended (every instruction that suspends the prefetcher flushes   *)
(* the queue before it ends).  The run ends with the call.  ret tells the  *)
(* call: the state before it in pre, the wait states the bus target        *)
(* answered with in cycles.                                                *)
(***************************************************************************)
\* cycle() calls after which finalize is no longer called
MaxFinalizeStart == 16

\* largest wait-state count the bus target answers a fetch under finalize with
MaxFinalizeWait == 9

\* finalize() at the end of an instruction; in_rep tells whether what ended
\* was an iteration of a string instruction that goes on repeating.  The EU
\* makes no request after it.
Finalize ==
    /\ cpu.panic = ""
    /\ eu.pos = "idle"
    /\ ~cpu.fetch_suspended
    /\ cpu.cycle_num < MaxFinalizeStart
    /\ \E in_rep \in BOOLEAN, ws \in 0..MaxFinalizeWait :
          \E s \in {[cpu EXCEPT !.in_rep = in_rep]} :
              /\ cpu' = finalize(s, ws)
              /\ ret' = [NoRet EXCEPT !.executed = "finalize", !.pre = Snapshot(s),
                                      !.cycles = ws, !.nsteps = 1]
    /\ eu' = [eu EXCEPT !.pos = "finalized"]

NextFinalize == NextBus \/ Finalize

SpecFinalize == InitBus /\ [][NextFinalize]_vars

(***************************************************************************)
(* C32: finalize, under SpecFinalize.                                      *)
(***************************************************************************)
\* this step is a call of finalize
FinalizeReturns == ret'.nsteps = ret.nsteps + 1

\* C32: finalize of an instruction that is not repeating always completes:
\* whatever wait-state count the bus target answers with and whatever state
\* the prefetcher is in, it drives cycles until the queue holds a byte, marks
\* the byte preloaded and returns, and no number of cycles makes it give up;
\* with in_rep set it drives no cycle and sets no preload.
C32_FinalizeCompletes ==
    [][FinalizeReturns =>
         IF ret'.pre.in_rep
         THEN /\ cpu'.cycle_num = cpu.cycle_num
              /\ cpu'.queue = cpu.queue
         ELSE /\ cpu'.panic = ""
              /\ queue_len(cpu') >= 1
              /\ cpu'.queue.preload
              /\ cpu'.cycle_num > cpu.cycle_num]_vars

\* what does hold: finalize completes where the byte is in the queue before
\* the sixteenth cycle, and panics where it is not
C32_FinalizeWithinTimeout ==
    [][FinalizeReturns =>
         IF ret'.pre.in_rep
         THEN /\ cpu'.cycle_num = cpu.cycle_num
              /\ cpu'.queue = cpu.queue
         ELSE \/ /\ cpu'.panic = ""
                 /\ queue_len(cpu') >= 1
                 /\ cpu'.queue.preload
                 /\ cpu'.cycle_num - cpu.cycle_num <= FINALIZE_TIMEOUT
              \/ /\ cpu'.panic = "Finalize timeout!"
                 /\ cpu'.cycle_num - cpu.cycle_num = FINALIZE_TIMEOUT
                 /\ ret'.cycles > MaxWait]_vars

\* finalize has given up after sixteen cycles
C32_WitnessTimeout ==
    /\ ret.executed = "finalize"
    /\ cpu.panic = "Finalize timeout!"

\* finalize has waited for a byte and preloaded it
C32_WitnessPreloaded ==
    /\ ret.executed = "finalize"
    /\ ~ret.pre.in_rep
    /\ Len(ret.pre.queue.q) = 0
    /\ cpu.queue.preload
    /\ cpu.panic = ""

(***************************************************************************)
(* C33: the interrupt-inhibit latch, under Spec.  ret is what the last     *)
(* step returned, ret.pre the state it began in.                           *)
(***************************************************************************)
\* the last step executed an instruction
Executed == ret.nsteps > 0 /\ ret.executed # ""

\* the instructions that set the latch: a load of SS, and STI through set_flag
SetsLatch == {"MOV_SS", "STI"}

\* the last step began with IF = 1, the latch clear and the interrupt line
\* asserted, and its instruction came to a normal end
AdmittedAndRetired ==
    /\ IF_set(ret.pre.flags)
    /\ ~ret.pre.interrupt_inhibit
    /\ ret.pre.intr
    /\ ret.exec_result \in {"Okay", "OkayJump", "OkayRep"}
    /\ cpu.panic = ""

C33_WitnessEntered ==
    /\ ret.nsteps = 3
    /\ Len(ret.retired) = 3
    /\ ret.retired[1][3] = "STI"
    /\ ret.retired[2][3] = "NOP"
    /\ ret.prev_entered = ""
    /\ ret.entered = "hw"
    /\ cpu.panic = ""

(***************************************************************************)
(* C34: the interrupt step has acknowledged, under Spec.                   *)
(***************************************************************************)
\* the last step found interrupts enabled and the line asserted, and took the
\* vector from the interrupt controller
Acknowledged ==
    /\ ret.nsteps > 0
    /\ IF_set(ret.pre.flags)
    /\ ~ret.pre.interrupt_inhibit
    /\ ret.pre.intr
    /\ cpu.panic = ""

\* C34 as stated: whenever step has taken a vector from the interrupt
\* controller, it has entered the hardware interrupt for that vector before
\* it returns, whichever way it returns.
C34_NoInterruptLost ==
    Acknowledged => (ret.entered = "hw" /\ ret.vector \in IrqVectors)

\* what does hold: the acknowledged interrupt is entered exactly if the CPU
\* was halted or the instruction ended Okay, OkayJump or OkayRep
C34_EnteredOnOkayOnly ==
    Acknowledged =>
        (ret.entered = "hw" <=>
            (ret.pre.halted \/ ret.exec_result \in {"Okay", "OkayJump", "OkayRep"}))

\* the vector was taken and the step returned BreakpointHit: no entry, and the
\* controller no longer asserts the request
C34_WitnessBreakpoint ==
    /\ Acknowledged
    /\ ret.result = "BreakpointHit"
    /\ ret.entered = ""
    /\ ~cpu.bus.pic.intr

\* the vector was taken and the instruction raised a divide error: the
\* exception is entered, the interrupt is not
C34_WitnessDivide ==
    /\ Acknowledged
    /\ ret.entered = "exception"
    /\ ~cpu.bus.pic.intr

(***************************************************************************)
(* C35: the cycle count step returns, under Spec.                          *)
(***************************************************************************)
\* the cycle() calls the last step made
CyclesRun == cpu.cycle_num - ret.pre.cycle_num

\* C35 as stated: on every return of Ok the count step returns is the number
\* of cycle() calls made during the step.
C35_CyclesReturned ==
    (ret.kind = "Ok" /\ cpu.panic = "") => ret.cycles = CyclesRun

\* what does hold: a step of a halted CPU returns 3 whatever it ran; a step
\* that enters a hardware interrupt returns the cycles run up to the entry;
\* every other step returns the cycles it ran
C35_CyclesBeforeEntry ==
    (ret.kind = "Ok" /\ cpu.panic = "") =>
        CASE ret.pre.halted -> ret.cycles = 3
          [] ret.entered = "hw" ->
                /\ ret.cycles = ret.entry.cycle_num - ret.pre.cycle_num
                /\ ret.cycles < CyclesRun
          [] OTHER -> ret.cycles = CyclesRun

\* a halted CPU with no interrupt: step returns 3 and has run no cycle
C35_WitnessHalted ==
    /\ ret.kind = "Ok"
    /\ ret.pre.halted
    /\ ret.entered = ""
    /\ ret.cycles = 3
    /\ CyclesRun = 0

\* an instruction has retired and its step has gone on to enter an interrupt
C35_WitnessEntry ==
    /\ ret.kind = "Ok"
    /\ ret.executed = "NOP"
    /\ ret.entered = "hw"
    /\ cpu.panic = ""
    /\ ret.cycles < CyclesRun

\* a divide error: the cycles of the exception entry are in the count
C35_WitnessException ==
    /\ ret.kind = "Ok"
    /\ ret.entered = "exception"
    /\ cpu.panic = ""
    /\ ret.cycles = CyclesRun
    /\ ret.cycles > ret.entry.cycle_num - ret.pre.cycle_num

(***************************************************************************)
(* SpecWait: SpecBus with the wait states of the bus cycle in flight kept  *)
(* in ret: cycles is the wait-state count the T3 transfer left, nsteps the *)
(* cycles spent in Tw since.                                               *)
(***************************************************************************)
\* one cycle() call, counted
WaitCycle ==
    /\ Cycle
    /\ ret' = CASE cpu.t_cycle = "T3" /\ cpu.bus_status \in ActiveStatus ->
                       [ret EXCEPT !.executed = "T3",
                                   !.cycles = cpu'.wait_states,
                                   !.nsteps = 0]
                [] cpu.t_cycle = "Tw" /\ cpu.bus_status \in ActiveStatus ->
                       [ret EXCEPT !.nsteps = @ + 1]
                [] OTHER -> ret

NextWait ==
    \/ WaitCycle
    \/ EuWaitDone
    \/ EuBusRequest
    \/ EuBusStart
    \/ EuQueueRead
    \/ EuQueuePop
    \/ EuSuspend
    \/ EuFlush

SpecWait == InitBus /\ [][NextWait]_vars

(***************************************************************************)
(* C36: wait states and Tw, under SpecWait.                                *)
(***************************************************************************)
\* a bus cycle has come to its T4
AtT4 ==
    /\ cpu.t_cycle = "T4"
    /\ cpu.bus_status \in ActiveStatus
    /\ ret.executed = "T3"

\* C36 as stated: a bus cycle whose wait-state count after the T3 transfer is
\* n has spent exactly n cycles in Tw when it enters T4 (none for n = 0), and
\* enters T4 with the wait counter at 0.
C36_TwCycles == AtT4 => (ret.nsteps = ret.cycles /\ cpu.wait_states = 0)

\* what does hold: no Tw for n = 0, n + 1 cycles in Tw for n > 0, and the
\* wait counter at 0 on entry to T4
C36_TwCyclesOneMore ==
    AtT4 =>
        /\ ret.nsteps = IF ret.cycles = 0 THEN 0 ELSE ret.cycles + 1
        /\ cpu.wait_states = 0

\* a bus cycle with one wait state is at T4 after two cycles in Tw
C36_WitnessOneWait == AtT4 /\ ret.cycles = 1 /\ ret.nsteps = 2

\* a bus cycle without wait states is at T4
C36_WitnessNoWait == AtT4 /\ ret.cycles = 0 /\ ret.nsteps = 0

\* a bus cycle held up by the DRAM refresh as well is at T4
C36_WitnessRefresh == AtT4 /\ ret.cycles > MaxWait

(***************************************************************************)
(* SpecShadow: push_call_stack, rewind_call_stack and reset in any order.  *)
(* cpu.bus.ret is the set of addresses whose return bit (MEM_RET_BIT) is   *)
(* set in the flag map of the bus.                                         *)
(***************************************************************************)
\* reset leaves instr_cycle running, so it counts the cycles of the resets
MaxResetCycles == 18

ResetShadow ==
    /\ cpu.instr_cycle < MaxResetCycles
    /\ \E v \in ResetVectors : cpu' = reset(cpu, v)
    /\ ret' = Called(Len(cpu.call_stack), "reset", 0, 0)
    /\ UNCHANGED eu

NextShadow == PushCallStack \/ RewindCallStack \/ ResetShadow

SpecShadow == InitCallStack /\ [][NextShadow]_vars

(***************************************************************************)
(* C37: the shadow and the flag map, under SpecShadow.                     *)
(***************************************************************************)
\* every entry of the shadow has the return bit set at its return address
EntriesFlagged ==
    \A i \in 1..Len(cpu.call_stack) : return_addr(cpu.call_stack[i]) \in cpu.bus.ret

\* every address with the return bit set is the return address of an entry
FlagsHaveEntries ==
    \A a \in cpu.bus.ret : Returning(cpu.call_stack, a) # {}

\* C37 as stated: after any sequence of push_call_stack, rewind_call_stack
\* and reset, every entry of the shadow has the return bit set at its return
\* address, and every address with the return bit set is the return address
\* of some entry of the shadow.
C37_ShadowAgreesWithFlags == EntriesFlagged /\ FlagsHaveEntries

\* a reset has emptied the shadow and left return bits set
C37_WitnessReset ==
    /\ ret.executed = "reset"
    /\ cpu.call_stack = <<>>
    /\ cpu.bus.ret # {}

\* a rewind has cleared the return bit of an entry that is still in the shadow
C37_WitnessRewind ==
    /\ ret.executed = "rewind_call_stack"
    /\ ~EntriesFlagged

(***************************************************************************)
(* SpecOption: SpecBus with set_option(SimulateDramRefresh) called between *)
(* cycles.  ret holds, for the last T3 of an active bus cycle, the wait    *)
(* states the bus target answered (vector) and the count sampled (cycles), *)
(* and in nsteps the set_option calls made.                                *)
(***************************************************************************)
\* one cycle() call, with what the bus target answered at T3
OptionCycle ==
    \E ws \in 0..MaxWait :
        /\ CycleWith(ws)
        /\ ret' = IF cpu.t_cycle = "T3" /\ cpu.bus_status \in ActiveStatus
                  THEN [ret EXCEPT !.executed = "T3", !.vector = ws,
                                   !.cycles = cpu'.wait_states]
                  ELSE ret

\* set_option calls explored in a run
MaxOptionCalls == 1

\* set_option(CpuOption::SimulateDramRefresh(state, cycles))

SetOptionDram ==
    /\ cpu.panic = ""
    /\ ret.nsteps < MaxOptionCalls
    /\ \E state \in BOOLEAN, target \in RefreshTargets :
          /\ cpu' = set_option_dram(cpu, state, target)
          /\ cpu' # cpu
    /\ ret' = [ret EXCEPT !.nsteps = @ + 1]
    /\ UNCHANGED eu

NextOption ==
    \/ OptionCycle
    \/ SetOptionDram
    \/ EuWaitDone
    \/ EuBusRequest
    \/ EuBusStart
    \/ EuQueueRead
    \/ EuQueuePop
    \/ EuSuspend
    \/ EuFlush

\* the simulation is on when the run starts
InitOption ==
    /\ cpu \in {set_option_dram(new(t), TRUE, g) : t \in CpuTypes, g \in RefreshTargets}
    /\ eu = EuIdle
    /\ ret = NoRet

SpecOption == InitOption /\ [][NextOption]_vars

(***************************************************************************)
(* C38: the refresh option switched off, under SpecOption.                 *)
(***************************************************************************)
\* a cycle() call that operates the T3 of an active bus cycle
SamplesT3 ==
    /\ IsCycle
    /\ cpu.t_cycle = "T3"
    /\ cpu.bus_status \in ActiveStatus

\* what the bus target returned to the T3 just operated: IO has no answer
BusAnswer == IF cpu.bus_status \in {"IORead", "IOWrite"} THEN 0 ELSE ret'.vector

\* C38 as stated: with the DRAM-refresh simulation disabled, the wait-state
\* count sampled at T3 is what the bus target returned, 0 for IO transfers.
C38_NoRefreshWaits ==
    [][(SamplesT3 /\ ~cpu.dram_refresh_simulation) =>
           cpu'.wait_states = BusAnswer]_vars

\* what cycle_i does, simulation on or off: the count sampled at T3 is the
\* bus target's answer and the transfer cycles the DMA controller has left
C38_WaitsAddTransferCycles ==
    [][SamplesT3 => cpu'.wait_states = BusAnswer + cpu.dram_transfer_cycles]_vars

\* the simulation is off and the DMA controller is left holding the bus
C38_WitnessStale ==
    /\ ~cpu.dram_refresh_simulation
    /\ cpu.dram_refresh_has_bus
    /\ cpu.dram_transfer_cycles > 0
    /\ ret.executed = "T3"
    /\ ret.cycles > ret.vector

\* the simulation is off, nothing is left of a refresh, and a T3 has sampled
\* the bus target's answer alone
C38_WitnessClean ==
    /\ ~cpu.dram_refresh_simulation
    /\ cpu.dram_transfer_cycles = 0
    /\ cpu.t_cycle = "Tw"
    /\ ret.executed = "T3"
    /\ ret.cycles = ret.vector
    /\ ret.vector > 0

(***************************************************************************)
(* SpecHistory: two CPUs constructed alike and stepped over the same       *)
(* instructions with the same interrupt requests: cpu with the instruction *)
(* history on, ret.twin after set_option(InstructionHistory(false)).  ret  *)
(* also holds the steps made (nsteps) and what the last step of cpu ran    *)
(* (executed) and how it ended (exec_result).                              *)
(***************************************************************************)
InitHistory ==
    /\ cpu \in {new(t) : t \in CpuTypes}
    /\ eu = EuIdle
    /\ ret = [twin |-> set_option_history(cpu, FALSE), nsteps |-> 0,
              executed |-> "", exec_result |-> ""]

\* one step() call on each CPU, over the same instruction
HistoryStep ==
    /\ cpu.panic = ""
    /\ cpu.cycle_num < MaxCycleNum
    /\ ret.nsteps < MaxSteps
    /\ ~cpu.is_error
    /\ \E skip_breakpoint \in BOOLEAN, instr \in Instructions :
          \E r \in {step(cpu, skip_breakpoint, instr, 0)},
             o \in {step(ret.twin, skip_breakpoint, instr, 0)} :
              /\ cpu' = r.s
              /\ ret' = [twin |-> o.s, nsteps |-> ret.nsteps + 1,
                         executed |-> r.ret.executed,
                         exec_result |-> r.ret.exec_result]
    /\ UNCHANGED eu

\* the interrupt controller raises its request line, on both machines
HistoryIrq ==
    /\ cpu.panic = ""
    /\ ~cpu.bus.pic.intr
    /\ \E v \in IrqVectors :
          /\ cpu' = [cpu EXCEPT !.bus.pic = [intr |-> TRUE, vector |-> v]]
          /\ ret' = [ret EXCEPT !.twin.bus.pic = [intr |-> TRUE, vector |-> v]]
    /\ UNCHANGED eu

NextHistory == HistoryStep \/ HistoryIrq

SpecHistory == InitHistory /\ [][NextHistory]_vars

(***************************************************************************)
(* C39: the instruction-history option, under SpecHistory.                 *)
(***************************************************************************)
\* the registers and the flags
Registers(s) == <<s.cx, s.sp, s.cs, s.ss, s.ip, s.flags>>

\* C39 as stated: the two CPUs have equal registers, flags and
\* instruction_count after every step, and the history buffer of the one
\* with the history off is empty.
C39_HistoryOptionIsolated ==
    /\ Registers(cpu) = Registers(ret.twin)
    /\ cpu.instruction_count = ret.twin.instruction_count
    /\ ret.twin.instruction_history = <<>>

\* the part that holds: the registers and the flags are equal
C39_RegistersAgree == Registers(cpu) = Registers(ret.twin)

\* with the history off, a step counts and records the iterations of a REP
\* instruction and nothing else
C39_WitnessCount ==
    /\ ret.exec_result = "Okay"
    /\ cpu.instruction_count > ret.twin.instruction_count

C39_WitnessRep ==
    /\ ret.exec_result = "OkayRep"
    /\ ret.twin.instruction_history # <<>>

(***************************************************************************)
(* SpecAddress: comparisons of CpuAddress values.  ret.call holds three    *)
(* addresses and what eq() answered for them.                              *)
(***************************************************************************)
Flat(a) == [k |-> "Flat", a |-> a, s |-> 0, o |-> 0]

Segmented(s, o) == [k |-> "Segmented", a |-> 0, s |-> s, o |-> o]

Offset(a) == [k |-> "Offset", a |-> a, s |-> 0, o |-> 0]

\* impl PartialEq for CpuAddress
CpuAddress_eq(self, other) ==
    CASE self.k = "Flat" /\ other.k = "Flat" -> self.a = other.a
      [] self.k = "Flat" /\ other.k = "Segmented" ->
            self.a = calc_linear_address(other.s, other.o)
      [] self.k = "Flat" /\ other.k = "Offset" -> FALSE
      [] self.k = "Segmented" /\ other.k = "Flat" ->
            calc_linear_address(self.s, self.o) = other.a
      [] self.k = "Segmented" /\ other.k = "Segmented" ->
            self.s = other.s /\ self.o = other.o
      [] OTHER -> FALSE


\* the highest segment compared
MaxParagraph == 2

\* flat, segmented and offset addresses in the first paragraphs of memory,
\* and a segmented one that wraps around the end of it
Addresses ==
    {Flat(16 * p) : p \in 0..MaxParagraph}
        \cup {Segmented(s, o) : s \in 0..MaxParagraph, o \in {0, 16}}
        \cup {Segmented(65535, 16)}
        \cup {Offset(a) : a \in {0, 16}}

\* one comparison in a run
CompareAddresses ==
    /\ ret = NoRet
    /\ \E a \in Addresses, b \in Addresses, c \in Addresses :
          ret' = [NoRet EXCEPT !.executed = "eq",
                               !.call = [a |-> a, b |-> b, c |-> c,
                                         aa |-> CpuAddress_eq(a, a),
                                         ab |-> CpuAddress_eq(a, b),
                                         ba |-> CpuAddress_eq(b, a),
                                         bc |-> CpuAddress_eq(b, c),
                                         ac |-> CpuAddress_eq(a, c)]]
    /\ UNCHANGED <<cpu, eu>>

NextAddress == CompareAddresses

SpecAddress == Init /\ [][NextAddress]_vars

(***************************************************************************)
(* C40: equality on CpuAddress, under SpecAddress.                         *)
(***************************************************************************)
Compared == ret.executed = "eq"

Reflexive == Compared => ret.call.aa

Symmetric == Compared => (ret.call.ab <=> ret.call.ba)

Transitive == Compared => ((ret.call.ab /\ ret.call.bc) => ret.call.ac)

\* C40 as stated: equality on CpuAddress is reflexive, symmetric and
\* transitive over Flat, Segmented and Offset values.
C40_Equivalence == Reflexive /\ Symmetric /\ Transitive

\* the part that holds: equality is symmetric
C40_Symmetric == Symmetric

\* an Offset address does not equal itself
C40_WitnessOffset ==
    /\ Compared
    /\ ret.call.a.k = "Offset"
    /\ ~ret.call.aa

\* two Segmented addresses equal the same Flat address and not each other
C40_WitnessSegmented ==
    /\ Compared
    /\ ret.call.a.k = "Segmented" /\ ret.call.b.k = "Flat" /\ ret.call.c.k = "Segmented"
    /\ ret.call.ab /\ ret.call.bc /\ ~ret.call.ac

====
